---- MODULE Spec2Model ----
(***************************************************************************)
(* DocSenseAI: asynchronous job execution and event streaming.             *)
(*                                                                         *)
(* One job, its producer (process_chat_job -> run_agent -> the LangGraph   *)
(* pipeline -> StreamPublisher.publish_event), the Redis substrate (event  *)
(* list, done marker, their TTLs, the pub/sub channel) and one stream      *)
(* request (stream_chat_response.event_generator driving                   *)
(* StreamSubscriber.stream_events).  Every Redis command is one atomic     *)
(* step; the producer and the consumer interleave freely between them.     *)
(***************************************************************************)
EXTENDS Integers, Sequences, FiniteSets, TLC

(***************************************************************************)
(* Bounds of the model.                                                    *)
(***************************************************************************)
\* text tokens streamed by the synthesis stage
MaxTokens == 0
\* collaborator calls that raise in one job
MaxFailures == 1
\* documents in the directory
MaxPdfs == 2
\* hits search_text returns
MaxHits == 2
\* numerals in the bracket groups of the response
MaxNumbers == 2
\* seconds that pass in one step of the clock
TickSeconds == 200

(***************************************************************************)
(* Program constants.                                                      *)
(***************************************************************************)
EVENT_TTL_SECONDS == 600
max_wait_seconds == 300
timeout_seconds == 300
job_timeout == 300

\* a key without a retention timer
NoTTL == -1

(***************************************************************************)
(* Events (app.models) as the dictionaries model_dump() gives.  Fields an  *)
(* event type does not have are "absent".                                  *)
(***************************************************************************)
\* the citation field of an event that is not a citation
NoCitation == [id |-> 0, document_name |-> "absent", page_number |-> 0]

ToolCallStartEvent(tool_name) ==
    [event |-> "tool_call_start", name |-> tool_name, message |-> "absent", recoverable |-> "absent",
     citation |-> NoCitation]

ToolCallEndEvent(tool_name) ==
    [event |-> "tool_call_end", name |-> tool_name, message |-> "absent", recoverable |-> "absent",
     citation |-> NoCitation]

TextChunkEvent(content) ==
    [event |-> "text_chunk", name |-> content, message |-> "absent", recoverable |-> "absent",
     citation |-> NoCitation]

\* CitationEvent(citation=create_citation(citation_id, filename, page_number, ..))
CitationEvent(citation_id, filename, page_number) ==
    [event |-> "citation", name |-> "absent", message |-> "absent", recoverable |-> "absent",
     citation |-> [id |-> citation_id, document_name |-> filename,
                   page_number |-> page_number]]

UIBlockEvent(kind) ==
    [event |-> "ui_block", name |-> kind, message |-> "absent", recoverable |-> "absent",
     citation |-> NoCitation]

ErrorEvent(msg, rec) ==
    [event |-> "error", name |-> "absent", message |-> msg, recoverable |-> rec,
     citation |-> NoCitation]

DoneEvent ==
    [event |-> "done", name |-> "absent", message |-> "absent", recoverable |-> "absent",
     citation |-> NoCitation]

\* the dictionary stream_events yields at its ceiling: no recoverable field
SubscriberTimeoutEvent ==
    [event |-> "error", name |-> "absent", message |-> "Stream timeout", recoverable |-> "absent",
     citation |-> NoCitation]

\* the dictionary event_generator yields at its ceiling
EndpointTimeoutEvent ==
    [event |-> "error", name |-> "absent", message |-> "Stream timeout", recoverable |-> "false",
     citation |-> NoCitation]

\* json.dumps(event.model_dump()): the string stored in the list and published
_serialize_event(e) == [json |-> e]

\* what json.loads gives for a string that is not JSON: it raises
\* json.JSONDecodeError
JSONDecodeError ==
    [event |-> "JSONDecodeError", name |-> "absent", message |-> "absent",
     recoverable |-> "absent", citation |-> NoCitation]

\* a string that is not JSON
undecodable == [json |-> JSONDecodeError]

\* json.loads of a string of the list or of the channel
json_loads(s) == s.json

(***************************************************************************)
(* The producer's programs.  A program is a sequence of operations: a call *)
(* of an external collaborator, or publish_event of one event.             *)
(***************************************************************************)
CallOp(what) == [op |-> "call", what |-> what, ev |-> DoneEvent]

PubOp(e) == [op |-> "pub", what |-> "publish_event", ev |-> e]

\* chunk.content of the i-th chunk llm.stream yields
chunk_content(inp, i) == IF i \in inp.blank THEN "" ELSE ToString(i)

\* the token loop streaming every chunk, the empty ones too
RECURSIVE TokenOps_every(_, _)
TokenOps_every(i, inp) ==
    IF i > inp.nTok THEN <<>>
    ELSE <<CallOp("llm.stream"), PubOp(TextChunkEvent(chunk_content(inp, i)))>>
         \o TokenOps_every(i + 1, inp)

\* for chunk in llm.stream(messages): if chunk.content: handler.stream_text
RECURSIVE TokenOps(_, _)
TokenOps(i, inp) ==
    IF i > inp.nTok THEN <<>>
    ELSE <<CallOp("llm.stream")>>
         \o (IF chunk_content(inp, i) # ""
               THEN <<PubOp(TextChunkEvent(chunk_content(inp, i)))>> ELSE <<>>)
         \o TokenOps(i + 1, inp)

\* full_response after the chunks from the i-th on: if chunk.content:
\* full_response += chunk.content
RECURSIVE full_response(_, _)
full_response(i, inp) ==
    IF i > inp.nTok THEN ""
    ELSE (IF chunk_content(inp, i) # "" THEN chunk_content(inp, i) ELSE "")
         \o full_response(i + 1, inp)

analyze_query_node ==
    <<PubOp(ToolCallStartEvent("analyze_query")),
      CallOp("llm.invoke"),
      PubOp(ToolCallEndEvent("analyze_query"))>>

(***************************************************************************)
(* The answers of the collaborators in one job (inp):                      *)
(*   results  for each keyword of the query, what processor.search_text    *)
(*            returns: a sequence of hits (filename, page_num)             *)
(*   pdfs     what processor.list_pdfs returns: for each document its      *)
(*            filename, whether a query word of more than two letters is   *)
(*            in the filename (named), what extract_page(filename, 1)      *)
(*            returns (page1: "none", a page with "blank" text, a page     *)
(*            with "text") and what get_semantic_chunks returns (chunks:   *)
(*            page_num and whether chunk_text is non-empty)                *)
(*   nTok     the chunks llm.stream yields                                 *)
(*   blank    which of them have an empty content                          *)
(*   numbers  the numerals (digit sequences) re.findall finds in the       *)
(*            bracket groups of the response, in the order of the text     *)
(*   iter     the order in which the set cited_numbers is iterated         *)
(* AgentState is inp and relevant_documents.                               *)
(***************************************************************************)
Min(a, b) == IF a <= b THEN a ELSE b

Range(s) == {s[i] : i \in 1..Len(s)}

\* a retrieved section (filename, page_num, context); context names the text
Section(filename, page_num, context) ==
    [filename |-> filename, page_num |-> page_num, context |-> context]

\* relevant_docs.append(..) unless a section of the same (filename, page_num)
\* is in relevant_docs
AppendNew(relevant_docs, hit) ==
    IF \E i \in 1..Len(relevant_docs) :
           /\ relevant_docs[i].filename = hit.filename
           /\ relevant_docs[i].page_num = hit.page_num
    THEN relevant_docs
    ELSE Append(relevant_docs, Section(hit.filename, hit.page_num, "search context"))

RECURSIVE AppendResults(_, _)
AppendResults(relevant_docs, hits) ==
    IF hits = <<>> THEN relevant_docs
    ELSE AppendResults(AppendNew(relevant_docs, Head(hits)), Tail(hits))

\* phase 1: the hits of every keyword, in order
RECURSIVE keyword_search(_, _)
keyword_search(relevant_docs, results) ==
    IF results = <<>> THEN relevant_docs
    ELSE keyword_search(AppendResults(relevant_docs, Head(results)), Tail(results))

\* phase 2: the first page of every document a query word names
RECURSIVE filename_match(_)
filename_match(pdfs) ==
    IF pdfs = <<>> THEN <<>>
    ELSE (IF Head(pdfs).named /\ Head(pdfs).page1 = "text"
          THEN <<Section(Head(pdfs).filename, 1, "first page [:500]")>> ELSE <<>>)
         \o filename_match(Tail(pdfs))

\* chunks[:3] of one document, those with chunk_text
first_chunks(pdf) ==
    LET chunks == SubSeq(pdf.chunks, 1, Min(3, Len(pdf.chunks)))
        kept == SelectSeq(chunks, LAMBDA c : c.text)
    IN [i \in 1..Len(kept) |-> Section(pdf.filename, kept[i].page_num, "chunk")]

RECURSIVE load_chunks(_)
load_chunks(pdfs) ==
    IF pdfs = <<>> THEN <<>> ELSE first_chunks(Head(pdfs)) \o load_chunks(Tail(pdfs))

RECURSIVE load_first_pages(_)
load_first_pages(pdfs) ==
    IF pdfs = <<>> THEN <<>>
    ELSE (IF Head(pdfs).page1 = "text"
          THEN <<Section(Head(pdfs).filename, 1, "first page [:2000]")>> ELSE <<>>)
         \o load_first_pages(Tail(pdfs))

\* phase 3: the chunks of every document, else the first pages
full_fallback(pdfs) ==
    IF load_chunks(pdfs) # <<>> THEN load_chunks(pdfs) ELSE load_first_pages(pdfs)

\* relevant_docs after phase 1
after_keyword_search(inp) == keyword_search(<<>>, inp.results)

\* phase 2 run whatever phase 1 found
after_filename_match_always(inp) ==
    after_keyword_search(inp) \o filename_match(inp.pdfs)

\* relevant_docs after phase 2: if not relevant_docs
after_filename_match(inp) ==
    IF after_keyword_search(inp) = <<>> THEN filename_match(inp.pdfs)
    ELSE after_keyword_search(inp)

\* relevant_docs as search_documents_node returns it (after phase 3)
search_documents(inp) ==
    IF after_filename_match(inp) = <<>> THEN full_fallback(inp.pdfs)
    ELSE after_filename_match(inp)

\* one call per element of a sequence
Calls(what, s) == [i \in 1..Len(s) |-> CallOp(what)]

search_documents_node(inp) ==
    <<PubOp(ToolCallStartEvent("search_documents"))>>
    \o Calls("processor.search_text", inp.results)
    \o (IF after_keyword_search(inp) = <<>>
        THEN <<CallOp("processor.list_pdfs (filename match)")>>
             \o Calls("processor.extract_page (filename match)",
                      SelectSeq(inp.pdfs, LAMBDA pdf : pdf.named))
        ELSE <<>>)
    \o (IF after_filename_match(inp) = <<>>
        THEN <<CallOp("processor.list_pdfs (fallback)")>>
             \o Calls("processor.get_semantic_chunks", inp.pdfs)
             \o (IF load_chunks(inp.pdfs) = <<>>
                 THEN Calls("processor.extract_page (fallback)", inp.pdfs) ELSE <<>>)
        ELSE <<>>)
    \o <<PubOp(UIBlockEvent(IF search_documents(inp) # <<>>
                            THEN "Documents Loaded" ELSE "No Documents")),
         PubOp(ToolCallEndEvent("search_documents"))>>

\* the pages extract_content_node reads: relevant_documents[:3] without the
\* pages seen
seen_pages(relevant_documents) ==
    AppendResults(<<>>, SubSeq(relevant_documents, 1, Min(3, Len(relevant_documents))))

extract_content_node(relevant_documents) ==
    <<PubOp(ToolCallStartEvent("read_pdf_page"))>>
    \o Calls("processor.extract_page", seen_pages(relevant_documents))
    \o <<PubOp(ToolCallEndEvent("read_pdf_page"))>>

\* int(num_str) of a numeral given as its digits
RECURSIVE int(_)
int(num_str) ==
    IF num_str = <<>> THEN 0
    ELSE 10 * int(SubSeq(num_str, 1, Len(num_str) - 1)) + num_str[Len(num_str)]

\* the citation loop with the lower limit left out
RECURSIVE CitationOpsFromZero(_, _)
CitationOpsFromZero(cited_numbers, relevant_documents) ==
    IF cited_numbers = <<>> THEN <<>>
    ELSE LET num == int(Head(cited_numbers))
             at == IF num = 0 THEN Len(relevant_documents) ELSE num
         IN (IF num <= Len(relevant_documents) /\ relevant_documents # <<>>
             THEN <<PubOp(CitationEvent(num, relevant_documents[at].filename,
                                        relevant_documents[at].page_num))>>
             ELSE <<>>)
            \o CitationOpsFromZero(Tail(cited_numbers), relevant_documents)

\* for num_str in cited_numbers: a citation of relevant_documents[num - 1]
\* if 1 <= num <= len(relevant_documents)
RECURSIVE CitationOps(_, _)
CitationOps(cited_numbers, relevant_documents) ==
    IF cited_numbers = <<>> THEN <<>>
    ELSE LET num == int(Head(cited_numbers))
         IN (IF 1 <= num /\ num <= Len(relevant_documents)
             THEN <<PubOp(CitationEvent(num, relevant_documents[num].filename,
                                        relevant_documents[num].page_num))>>
             ELSE <<>>)
            \o CitationOps(Tail(cited_numbers), relevant_documents)

\* the synthesis stage ending its tool call after the citations
synthesize_answer_node_end_last(inp, relevant_documents) ==
    <<PubOp(ToolCallStartEvent("synthesize_answer"))>>
    \o TokenOps(1, inp)
    \o <<CallOp("llm.stream")>>
    \o CitationOps(inp.iter, relevant_documents)
    \o <<PubOp(ToolCallEndEvent("synthesize_answer"))>>

synthesize_answer_node(inp, relevant_documents) ==
    <<PubOp(ToolCallStartEvent("synthesize_answer"))>>
    \o TokenOps(1, inp)
    \o <<CallOp("llm.stream"), PubOp(ToolCallEndEvent("synthesize_answer"))>>
    \o CitationOps(inp.iter, relevant_documents)

\* if len(documents) >= 2: the sources table (rows is never empty then)
generate_ui_blocks_node(documents) ==
    IF Len(documents) >= 2 THEN <<PubOp(UIBlockEvent("Table"))>> ELSE <<>>

\* the last stage returning without handler.finish()
finalize_node_silent ==
    <<>>

finalize_node ==
    <<PubOp(DoneEvent)>>

error_node ==
    <<PubOp(ErrorEvent("An unexpected error occurred", "false")), PubOp(DoneEvent)>>

\* the nodes of the graph (workflow.add_node) and what each of them runs;
\* START and END are the graph's own
START == "__start__"

END == "__end__"

add_node(node, state) ==
    CASE node = "analyze_query" -> analyze_query_node
      [] node = "search_documents" -> search_documents_node(state.inp)
      [] node = "extract_content" -> extract_content_node(state.relevant_documents)
      [] node = "synthesize_answer" -> synthesize_answer_node(state.inp, state.relevant_documents)
      [] node = "generate_ui_blocks" -> generate_ui_blocks_node(state.relevant_documents)
      [] node = "finalize" -> finalize_node
      [] node = "error" -> error_node
      [] OTHER -> <<>>

\* the edges with the extraction stage bypassed
add_edge_skip(node) ==
    CASE node = START -> "analyze_query"
      [] node = "analyze_query" -> "search_documents"
      [] node = "search_documents" -> "synthesize_answer"
      [] node = "extract_content" -> "synthesize_answer"
      [] node = "synthesize_answer" -> "generate_ui_blocks"
      [] node = "generate_ui_blocks" -> "finalize"
      [] node = "finalize" -> END
      [] node = "error" -> END

\* the edges of the graph (set_entry_point, add_edge): the node after a node
add_edge(node) ==
    CASE node = START -> "analyze_query"
      [] node = "analyze_query" -> "search_documents"
      [] node = "search_documents" -> "extract_content"
      [] node = "extract_content" -> "synthesize_answer"
      [] node = "synthesize_answer" -> "generate_ui_blocks"
      [] node = "generate_ui_blocks" -> "finalize"
      [] node = "finalize" -> END
      [] node = "error" -> END

\* the nodes graph.invoke runs from a node on, in order
RECURSIVE NodesFrom(_)
NodesFrom(node) ==
    IF node = END THEN <<>>
    ELSE IF node = START THEN NodesFrom(add_edge(node))
    ELSE <<node>> \o NodesFrom(add_edge(node))

\* the state after a node: its returned dictionary merged into the state
Returned(node, state) ==
    IF node = "search_documents"
    THEN [state EXCEPT !.relevant_documents = search_documents(state.inp)]
    ELSE IF node = "synthesize_answer"
    THEN [state EXCEPT !.final_response = full_response(1, state.inp)]
    ELSE state

\* initial_state of run_agent
initial_state(inp) == [inp |-> inp, relevant_documents |-> <<>>, final_response |-> ""]

RECURSIVE Programs(_, _)
Programs(nodes, state) ==
    IF nodes = <<>> THEN <<>>
    ELSE add_node(Head(nodes), state) \o Programs(Tail(nodes), Returned(Head(nodes), state))

\* the compiled graph: everything graph.invoke runs, entry point to END
create_agent_graph(inp) ==
    Programs(NodesFrom(START), initial_state(inp))

\* the except block publishing its error with the default recoverable flag
run_agent_except_recoverable ==
    <<PubOp(ErrorEvent("exception", "true")), PubOp(DoneEvent)>>

\* the except block of run_agent
run_agent_except ==
    <<PubOp(ErrorEvent("exception", "false")), PubOp(DoneEvent)>>

\* the except block of process_chat_job
process_chat_job_except ==
    <<PubOp(ErrorEvent("exception", "false")), PubOp(DoneEvent)>>

\* the events a program publishes when all of its operations run
PubEvents(program) ==
    LET pubs == SelectSeq(program, LAMBDA o : o.op = "pub")
    IN [i \in 1..Len(pubs) |-> pubs[i].ev]

VARIABLES
    events,       \* Redis list job:events:{job_id}
    eventsTTL,    \* seconds after which the list expires, or NoTTL
    doneKey,      \* Redis key job:done:{job_id} exists
    doneTTL,      \* seconds after which the done marker expires, or NoTTL
    subscribed,   \* the consumer's pubsub handle is subscribed to the channel
    inbox,        \* messages delivered to the pubsub handle, not yet read
    job,          \* the producer: the job and the position of its execution
    cons,         \* the consumer: event_generator and stream_events
    hist,         \* history: the events appended, those broadcast (with the
                  \* number of events appended by then), those yielded by
                  \* stream_events, those delivered to the client, the way
                  \* stream_events was entered and the reason of its end
                  \* (of the stream request in progress), and whether
                  \* the request is the first (1) or a later one (2); for
                  \* each exception raised in the job, the number of
                  \* events appended before it; the nodes the graph has
                  \* run, and for each event appended the node (or the
                  \* except block) that published it; the seconds since
                  \* the last write to the job's keys
    other,        \* another job submitted to the same queue and store: its
                  \* identifier, its place in process_chat_job, its list
                  \* and its done marker
    api           \* the dispatcher: the identifiers uuid4 has generated,
                  \* the create_chat call in progress, the responses of
                  \* create_chat, and the last response of get_job_status
                  \* with the state the queue runtime reported for it

vars == <<events, eventsTTL, doneKey, doneTTL, subscribed, inbox, job, cons, hist, other, api>>

\* what lies outside the job and its stream
outside == <<other, api>>

redisVars == <<events, eventsTTL, doneKey, doneTTL>>

(***************************************************************************)
(* Sequences.                                                              *)
(***************************************************************************)
IsPrefix(s, t) == Len(s) <= Len(t) /\ SubSeq(t, 1, Len(s)) = s

\* the first index of s holding x, 0 when there is none
Position(s, x) ==
    IF x \in Range(s) THEN CHOOSE i \in 1..Len(s) : s[i] = x /\ \A j \in 1..(i - 1) : s[j] # x
    ELSE 0

\* redis lrange(key, start, -1), start counted from 0
lrange(list, start) == SubSeq(list, start + 1, Len(list))

\* get_all_events reading from index 1
get_all_events_from_one(list) == lrange(list, 1)

\* JobEventBuffer.get_all_events: lrange(key, 0, -1)
get_all_events(list) == lrange(list, 0)

\* get_events_from reading from the entry after start_index
get_events_from_next(list, start_index) == lrange(list, start_index + 1)

\* JobEventBuffer.get_events_from: lrange(key, start_index, -1)
get_events_from(list, start_index) == lrange(list, start_index)

\* JobEventBuffer.get_event_count: llen(key)
get_event_count(list) == Len(list)

HasDone(s) == \E i \in 1..Len(s) : s[i].event = "done"

FirstDone(s) == CHOOSE i \in 1..Len(s) : s[i].event = "done" /\ \A j \in 1..(i - 1) : s[j].event # "done"

\* the events of s up to and including its first done event
ThroughDone(s) == IF HasDone(s) THEN SubSeq(s, 1, FirstDone(s)) ELSE s


(***************************************************************************)
(* Initial state.  The job identifier of the stream request is either the  *)
(* one of a submitted job (queued by create_chat) or unknown to the system.*)
(* The job runs over an empty document directory and its answer is        *)
(* MaxTokens tokens without citation markers.                              *)
(***************************************************************************)
\* uuid4 giving the same identifier at every call
uuid4_same(n) == 1

\* str(uuid.uuid4()): the identifier generated by the call after n earlier
\* calls; a random UUID is taken to differ from all generated before it
uuid4(n) == n + 1

\* the event list key without the job identifier in it
_get_event_key_shared(job_id) == <<"job:events:", 0>>

\* JobEventBuffer._get_event_key: EVENT_LIST_KEY.format(job_id=job_id)
_get_event_key(job_id) == <<"job:events:", job_id>>

\* JobEventBuffer._get_done_key: DONE_KEY.format(job_id=job_id)
_get_done_key(job_id) == <<"job:done:", job_id>>

\* StreamPublisher._get_channel_name and StreamSubscriber._get_channel_name
_get_channel_name(job_id) == <<"chat:stream:", job_id>>

\* the responses of the dispatcher
ChatResponse(job_id, status) == [code |-> 200, job_id |-> job_id, status |-> status]

JobStatus(job_id, status) == [code |-> 200, job_id |-> job_id, status |-> status]

HTTPException(status_code) == [code |-> status_code, job_id |-> 0, status |-> "absent"]

NoResponse == [code |-> 0, job_id |-> 0, status |-> "absent"]

\* no other job has been submitted
NoJob ==
    [id |-> 0, state |-> "none", idx |-> 1, sub |-> "enter",
     events |-> <<>>, eventsTTL |-> NoTTL, doneKey |-> FALSE, doneTTL |-> NoTTL]

\* the state after n chat requests have been accepted by create_chat, none
\* of the jobs taken by a worker yet and no stream requested; the first
\* job's collaborators answer as inp says
Submitted(n, inp) ==
    /\ events = <<>>
    /\ eventsTTL = NoTTL
    /\ doneKey = FALSE
    /\ doneTTL = NoTTL
    /\ subscribed = FALSE
    /\ inbox = <<>>
    /\ job = [state |-> IF n >= 1 THEN "queued" ELSE "none",
              frame |-> "graph", node |-> START, idx |-> 1, sub |-> "enter",
              elapsed |-> 0, alarm |-> FALSE, failures |-> 0,
              agent |-> initial_state(inp),
              id |-> IF n >= 1 THEN uuid4(0) ELSE 0]
    /\ other = IF n >= 2 THEN [NoJob EXCEPT !.id = uuid4(1), !.state = "queued"] ELSE NoJob
    /\ api = [uuids |-> n, pc |-> "idle", job_id |-> 0,
              responses |-> [i \in 1..n |-> ChatResponse(uuid4(i - 1), "queued")],
              job_status |-> NoResponse, reported |-> "absent"]
    /\ cons = [pc |-> "idle", sent_count |-> 0, pending |-> <<>>,
               elapsed |-> 0, gen_elapsed |-> 0, saw |-> "none"]
    /\ hist = [appended |-> <<>>, broadcast |-> <<>>, yielded |-> <<>>,
               delivered |-> <<>>, reason |-> "none", path |-> "none", attempt |-> 1,
               raised |-> <<>>, stages |-> <<>>, by |-> <<>>, calls |-> <<>>,
                   idle |-> NoTTL, grown |-> FALSE]

Start(known, inp) == Submitted(IF known THEN 1 ELSE 0, inp)

\* a job over an empty document directory whose answer is nTok tokens
NoDocuments(nTok) ==
    [results |-> <<>>, pdfs |-> <<>>, nTok |-> nTok, blank |-> {}, numbers |-> <<>>, iter |-> <<>>]

Init == \E known \in BOOLEAN : Start(known, NoDocuments(MaxTokens))

(***************************************************************************)
(* The clock and Redis expiry.  Time is kept as what the program measures: *)
(* the seconds since the job started (the queue runtime's budget), since   *)
(* event_generator and stream_events took their start times, and the       *)
(* seconds the two keys have left.  A key whose retention timer has run    *)
(* out is gone.  A running job is interrupted by the queue runtime when    *)
(* its execution budget is used up, so no time passes for a running job    *)
(* beyond the budget.  The consumer waits where it is suspended: in        *)
(* get_message and at a yield; its Redis commands in between take no time  *)
(* on the scale of the clock.  The clock of stream_events (time.time) and  *)
(* the one of event_generator (the event loop's) advance alike.            *)
(***************************************************************************)
\* the places of stream_events at which the consumer is suspended
Suspended(pc) ==
    pc \in {"idle", "closed", "live", "done_yield", "replay_yield", "live_yield", "flush_yield"}

\* time.time() - start, once it is past the ceilings it stays past them
Later(elapsed) ==
    IF elapsed > max_wait_seconds /\ elapsed > timeout_seconds
      THEN elapsed ELSE elapsed + TickSeconds

\* the seconds a key has left after a step of the clock
Left(ttl) == IF ttl = NoTTL THEN NoTTL ELSE ttl - TickSeconds

\* a key that outlives its retention timer by one step of the clock
Expired_late(ttl) == ttl # NoTTL /\ ttl + TickSeconds <= 0

Expired(ttl) == ttl # NoTTL /\ ttl <= 0

\* the seconds since the last write to the job's keys (none before the
\* first write), once they are past the retention they stay past it
Idle(idle) ==
    IF idle = NoTTL \/ idle >= EVENT_TTL_SECONDS THEN idle ELSE idle + TickSeconds

Tick ==
    /\ job.state = "running" => job.elapsed < job_timeout
    /\ Suspended(cons.pc)
    /\ IF Expired(Left(eventsTTL))
         THEN events' = <<>> /\ eventsTTL' = NoTTL
         ELSE events' = events /\ eventsTTL' = Left(eventsTTL)
    /\ IF Expired(Left(doneTTL))
         THEN doneKey' = FALSE /\ doneTTL' = NoTTL
         ELSE doneKey' = doneKey /\ doneTTL' = Left(doneTTL)
    /\ job' = IF job.state = "running"
                THEN [job EXCEPT !.elapsed = @ + TickSeconds] ELSE job
    /\ cons' = IF cons.pc \in {"idle", "closed"} THEN cons
               ELSE [cons EXCEPT !.gen_elapsed = Later(@),
                                 !.elapsed = IF subscribed THEN Later(@) ELSE @]
    /\ hist' = [hist EXCEPT !.idle = Idle(@)]
    /\ UNCHANGED <<subscribed, inbox>>
    /\ UNCHANGED outside

(***************************************************************************)
(* The producer.                                                           *)
(***************************************************************************)
Program(j) ==
    CASE j.frame = "graph" -> add_node(j.node, j.agent)
      [] j.frame = "run_agent_except" -> run_agent_except
      [] j.frame = "worker_except" -> process_chat_job_except

CurrentOp == Program(job)[job.idx]

AtOp == job.state = "running" /\ job.idx <= Len(Program(job))

\* the job timeout of the queue runtime is due: it raises in the job, once
AlarmDue == job.state = "running" /\ ~job.alarm /\ job.elapsed >= job_timeout

\* the operation after the current one
NextOp(j) == [j EXCEPT !.idx = j.idx + 1, !.sub = "enter"]

\* publish_event broadcasting before it buffers
publish_event_broadcast_first(done_last, ev) ==
    CASE done_last = "enter" -> "publish"
      [] done_last = "publish" -> "rpush"
      [] done_last = "rpush" -> "expire"
      [] done_last = "expire" -> IF ev.event = "done" THEN "mark_done" ELSE "return"
      [] done_last = "mark_done" -> "return"

\* publish_event marking the job done before it buffers the done event
publish_event_mark_first(done_last, ev) ==
    CASE done_last = "enter" -> IF ev.event = "done" THEN "mark_done" ELSE "rpush"
      [] done_last = "mark_done" -> "rpush"
      [] done_last = "rpush" -> "expire"
      [] done_last = "expire" -> "publish"
      [] done_last = "publish" -> "return"

\* publish_event: the command that follows the step done last; "enter" is
\* the call of publish_event, "return" its end
publish_event(done_last, ev) ==
    CASE done_last = "enter" -> "rpush"
      [] done_last = "rpush" -> "expire"
      [] done_last = "expire" -> "publish"
      [] done_last = "publish" -> IF ev.event = "done" THEN "mark_done" ELSE "return"
      [] done_last = "mark_done" -> "return"

\* the next command of the publish_event the producer is in, if it is in one
AtCommand(cmd) ==
    /\ AtOp /\ ~AlarmDue
    /\ CurrentOp.op = "pub"
    /\ publish_event(job.sub, CurrentOp.ev) = cmd

\* the producer after the command cmd of publish_event
AfterCommand(cmd) ==
    IF publish_event(cmd, CurrentOp.ev) = "return"
      THEN NextOp(job) ELSE [job EXCEPT !.sub = cmd]

\* the worker takes the job from the queue and calls process_chat_job
process_chat_job ==
    /\ job.state = "queued"
    /\ job' = [job EXCEPT !.state = "running", !.elapsed = 0]
    /\ UNCHANGED <<redisVars, subscribed, inbox, cons, hist>>
    /\ UNCHANGED outside

\* graph.invoke: the node is through, the graph runs the node its edge
\* leads to
graph_step ==
    /\ job.state = "running" /\ ~AlarmDue
    /\ job.frame = "graph" /\ job.node # END
    /\ job.idx > Len(Program(job))
    /\ job' = [job EXCEPT !.node = add_edge(job.node), !.idx = 1, !.sub = "enter",
                          !.agent = Returned(job.node, job.agent)]
    /\ hist' = [hist EXCEPT !.stages = IF add_edge(job.node) = END
                                         THEN @ ELSE Append(@, add_edge(job.node))]
    /\ UNCHANGED <<redisVars, subscribed, inbox, cons>>
    /\ UNCHANGED outside

\* a collaborator call of a stage returns
CollaboratorCall ==
    /\ AtOp /\ ~AlarmDue
    /\ CurrentOp.op = "call"
    /\ job' = NextOp(job)
    /\ hist' = [hist EXCEPT !.calls = Append(@, CurrentOp.what)]
    /\ UNCHANGED <<redisVars, subscribed, inbox, cons>>
    /\ UNCHANGED outside

\* append_event pushing at the head of the list
append_event_lpush ==
    /\ AtCommand("rpush")
    /\ events' = <<_serialize_event(CurrentOp.ev)>> \o events
    /\ job' = AfterCommand("rpush")
    /\ hist' = [hist EXCEPT !.appended = Append(@, CurrentOp.ev),
                            !.by = Append(@, IF job.frame = "graph"
                                               THEN job.node ELSE job.frame),
                            !.idle = 0]
    /\ UNCHANGED <<eventsTTL, doneKey, doneTTL, subscribed, inbox, cons>>
    /\ UNCHANGED outside

\* JobEventBuffer.append_event, first command: rpush
append_event_rpush ==
    /\ AtCommand("rpush")
    /\ events' = Append(events, _serialize_event(CurrentOp.ev))
    /\ job' = AfterCommand("rpush")
    /\ hist' = [hist EXCEPT !.appended = Append(@, CurrentOp.ev),
                            !.by = Append(@, IF job.frame = "graph"
                                               THEN job.node ELSE job.frame),
                            !.idle = 0]
    /\ UNCHANGED <<eventsTTL, doneKey, doneTTL, subscribed, inbox, cons>>
    /\ UNCHANGED outside

\* append_event setting the retention timer only on a key that has none
append_event_expire_once ==
    /\ AtCommand("expire")
    /\ eventsTTL' = IF events # <<>> /\ eventsTTL = NoTTL THEN EVENT_TTL_SECONDS ELSE eventsTTL
    /\ job' = AfterCommand("expire")
    /\ hist' = [hist EXCEPT !.idle = IF events # <<>> THEN 0 ELSE @]
    /\ UNCHANGED <<events, doneKey, doneTTL, subscribed, inbox, cons>>
    /\ UNCHANGED outside

\* JobEventBuffer.append_event, second command: expire (no effect on a missing key)
append_event_expire ==
    /\ AtCommand("expire")
    /\ eventsTTL' = IF events # <<>> THEN EVENT_TTL_SECONDS ELSE eventsTTL
    /\ job' = AfterCommand("expire")
    /\ hist' = [hist EXCEPT !.idle = IF events # <<>> THEN 0 ELSE @]
    /\ UNCHANGED <<events, doneKey, doneTTL, subscribed, inbox, cons>>
    /\ UNCHANGED outside

\* publish_event STEP 2: publish on the channel; Redis hands the message to
\* the handles subscribed at that moment
publish_event_publish ==
    /\ AtCommand("publish")
    /\ inbox' = IF subscribed
                  THEN Append(inbox, [type |-> "message", data |-> _serialize_event(CurrentOp.ev)])
                  ELSE inbox
    /\ job' = AfterCommand("publish")
    /\ hist' = [hist EXCEPT !.broadcast =
                     Append(@, [ev |-> CurrentOp.ev, at |-> Len(hist.appended)])]
    /\ UNCHANGED <<redisVars, subscribed, cons>>
    /\ UNCHANGED outside

\* mark_done that does not set the key
mark_done_unset ==
    /\ AtCommand("mark_done")
    /\ job' = AfterCommand("mark_done")
    /\ UNCHANGED <<redisVars, subscribed, inbox, cons, hist>>
    /\ UNCHANGED outside

\* JobEventBuffer.mark_done: set with ex
mark_done ==
    /\ AtCommand("mark_done")
    /\ doneKey' = TRUE
    /\ doneTTL' = EVENT_TTL_SECONDS
    /\ job' = AfterCommand("mark_done")
    /\ hist' = [hist EXCEPT !.idle = 0]
    /\ UNCHANGED <<events, eventsTTL, subscribed, inbox, cons>>
    /\ UNCHANGED outside

\* an exception that no frame catches
Raise_uncaught(j) == [j EXCEPT !.state = "failed", !.elapsed = 0]

\* where an exception raised in frame f is caught
Raise(j) ==
    CASE j.frame = "graph" ->
           [j EXCEPT !.frame = "run_agent_except", !.idx = 1, !.sub = "enter"]
      [] j.frame = "run_agent_except" ->
           [j EXCEPT !.frame = "worker_except", !.idx = 1, !.sub = "enter"]
      [] j.frame = "worker_except" ->
           [j EXCEPT !.state = "failed", !.elapsed = 0]

\* a collaborator called by a stage raises instead of returning
StageFailure ==
    /\ AtOp /\ ~AlarmDue
    /\ CurrentOp.op = "call"
    /\ job.failures < MaxFailures
    /\ job' = [Raise(job) EXCEPT !.failures = job.failures + 1]
    /\ hist' = [hist EXCEPT !.raised = Append(@, Len(hist.appended))]
    /\ UNCHANGED <<redisVars, subscribed, inbox, cons>>
    /\ UNCHANGED outside

\* the execution budget is used up: the queue runtime raises in the job
JobTimeout ==
    /\ AlarmDue
    /\ job' = [Raise(job) EXCEPT !.alarm = TRUE]
    /\ hist' = [hist EXCEPT !.raised = Append(@, Len(hist.appended))]
    /\ UNCHANGED <<redisVars, subscribed, inbox, cons>>
    /\ UNCHANGED outside

\* the running program is at its end: process_chat_job returns
process_chat_job_return ==
    /\ job.state = "running" /\ ~AlarmDue
    /\ job.idx > Len(Program(job))
    /\ job.frame = "graph" => job.node = END
    /\ job' = [job EXCEPT !.state = "finished", !.elapsed = 0]
    /\ UNCHANGED <<redisVars, subscribed, inbox, cons, hist>>
    /\ UNCHANGED outside


(***************************************************************************)
(* The consumer: stream_chat_response.event_generator iterating over       *)
(* StreamSubscriber.stream_events.                                         *)
(***************************************************************************)
\* the entries of a list read from Redis, decoded
Decoded(list) == [i \in 1..Len(list) |-> json_loads(list[i])]

\* event_generator without the break after its timeout event
event_generator_no_break(event_data, disconnected, elapsed) ==
    IF disconnected
      THEN [out |-> <<>>, stop |-> TRUE, reason |-> "cancelled"]
    ELSE IF elapsed > timeout_seconds
      THEN [out |-> <<EndpointTimeoutEvent>>, stop |-> FALSE, reason |-> "none"]
    ELSE IF event_data.event = "done"
      THEN [out |-> <<event_data>>, stop |-> TRUE, reason |-> "done"]
    ELSE [out |-> <<event_data>>, stop |-> FALSE, reason |-> "none"]

\* event_generator without the break after a done event
event_generator_no_done_break(event_data, disconnected, elapsed) ==
    IF disconnected
      THEN [out |-> <<>>, stop |-> TRUE, reason |-> "cancelled"]
    ELSE IF elapsed > timeout_seconds
      THEN [out |-> <<EndpointTimeoutEvent>>, stop |-> TRUE, reason |-> "timeout"]
    ELSE [out |-> <<event_data>>, stop |-> FALSE, reason |-> "none"]

\* event_generator sending the event in hand before its timeout event
event_generator_forward_first(event_data, disconnected, elapsed) ==
    IF disconnected
      THEN [out |-> <<>>, stop |-> TRUE, reason |-> "cancelled"]
    ELSE IF elapsed > timeout_seconds
      THEN [out |-> <<event_data, EndpointTimeoutEvent>>, stop |-> TRUE, reason |-> "timeout"]
    ELSE IF event_data.event = "done"
      THEN [out |-> <<event_data>>, stop |-> TRUE, reason |-> "done"]
    ELSE [out |-> <<event_data>>, stop |-> FALSE, reason |-> "none"]

\* event_generator's handling of one event_data it gets from stream_events:
\* what it sends to the client and whether it leaves the loop
event_generator(event_data, disconnected, elapsed) ==
    IF disconnected
      THEN [out |-> <<>>, stop |-> TRUE, reason |-> "cancelled"]
    ELSE IF elapsed > timeout_seconds
      THEN [out |-> <<EndpointTimeoutEvent>>, stop |-> TRUE, reason |-> "timeout"]
    ELSE IF event_data.event = "done"
      THEN [out |-> <<event_data>>, stop |-> TRUE, reason |-> "done"]
    ELSE [out |-> <<event_data>>, stop |-> FALSE, reason |-> "none"]

\* the stream is over: the generator is finished or closed
Closed(c) ==
    [c EXCEPT !.pc = "closed", !.pending = <<>>, !.elapsed = 0, !.gen_elapsed = 0, !.saw = "none"]

\* a way out of stream_events that leaves the subscription as it is
Finally_kept == UNCHANGED <<subscribed, inbox>>

\* the finally block of stream_events: unsubscribe and close the handle
Finally ==
    /\ subscribed' = FALSE
    /\ inbox' = <<>>

\* stream_events yields ev to event_generator.  resumed is the consumer after
\* the yield when stream_events goes on; returns is the reason for which
\* stream_events itself returns after this yield, or "none".  The client may
\* have gone away: request.is_disconnected() answers either way
Yield(ev, resumed, returns) ==
    \E disconnected \in BOOLEAN :
    LET g == event_generator(ev, disconnected, cons.gen_elapsed)
        stop == g.stop \/ returns # "none"
    IN /\ hist' = [hist EXCEPT !.yielded = Append(@, ev),
                               !.delivered = @ \o g.out,
                               !.reason = IF g.stop THEN g.reason
                                          ELSE IF stop THEN returns ELSE @]
       /\ cons' = IF stop THEN Closed(resumed) ELSE resumed
       /\ IF stop THEN Finally ELSE UNCHANGED <<subscribed, inbox>>
       /\ UNCHANGED <<redisVars, job>>

\* a decode error that ends the stream
Continue_return(resumed, returns) ==
    /\ cons' = Closed(resumed)
    /\ hist' = [hist EXCEPT !.reason = "error"]
    /\ Finally
    /\ UNCHANGED <<redisVars, job>>

\* except json.JSONDecodeError: continue.  resumed is the consumer at the
\* next entry; returns is the reason for which stream_events returns when
\* the entry was the last of its loop, or "none"
Continue(resumed, returns) ==
    /\ cons' = IF returns # "none" THEN Closed(resumed) ELSE resumed
    /\ hist' = [hist EXCEPT !.reason = IF returns # "none" THEN returns ELSE @]
    /\ IF returns # "none" THEN Finally ELSE UNCHANGED <<subscribed, inbox>>
    /\ UNCHANGED <<redisVars, job>>

\* is_done with exists(...) >= 0
is_done_ge == TRUE

\* JobEventBuffer.is_done
is_done == doneKey

\* the request arrives: event_generator starts stream_events, which checks
\* whether the job is already completed
stream_events_start ==
    /\ cons.pc = "idle"
    /\ cons' = [cons EXCEPT !.pc = IF is_done THEN "done_read" ELSE "subscribe",
                            !.gen_elapsed = 0]
    /\ hist' = [hist EXCEPT !.path = IF is_done THEN "done" ELSE "subscribe"]
    /\ UNCHANGED <<redisVars, subscribed, inbox, job>>
    /\ UNCHANGED outside

\* job already done: get_all_events
done_get_all_events ==
    /\ cons.pc = "done_read"
    /\ IF get_all_events(events) = <<>>
         THEN /\ cons' = Closed(cons)
              /\ hist' = [hist EXCEPT !.reason = "done_replay"]
         ELSE /\ cons' = [cons EXCEPT !.pc = "done_yield",
                                      !.pending = Decoded(get_all_events(events))]
              /\ UNCHANGED hist
    /\ UNCHANGED <<redisVars, subscribed, inbox, job>>
    /\ UNCHANGED outside

\* job already done: yield the next entry of the buffer
done_yield ==
    /\ cons.pc = "done_yield"
    /\ IF Head(cons.pending) = JSONDecodeError
         THEN Continue([cons EXCEPT !.pending = Tail(@)],
                       IF Tail(cons.pending) = <<>> THEN "done_replay" ELSE "none")
         ELSE Yield(Head(cons.pending),
                    [cons EXCEPT !.pending = Tail(@)],
                    IF Tail(cons.pending) = <<>> THEN "done_replay" ELSE "none")
    /\ UNCHANGED outside

\* stream_events going on to the replay without subscribing
subscribe_skipped ==
    /\ cons.pc = "subscribe"
    /\ cons' = [cons EXCEPT !.pc = "replay_read", !.sent_count = 0, !.elapsed = 0]
    /\ UNCHANGED <<redisVars, subscribed, inbox, job, hist>>
    /\ UNCHANGED outside

\* pubsub.subscribe(channel); sent_count = 0; start_time = time.time()
subscribe ==
    /\ cons.pc = "subscribe"
    /\ subscribed' = TRUE
    /\ inbox' = <<[type |-> "subscribe", data |-> 1]>>
    /\ cons' = [cons EXCEPT !.pc = "replay_read", !.sent_count = 0, !.elapsed = 0]
    /\ UNCHANGED <<redisVars, job, hist>>
    /\ UNCHANGED outside

\* the replay returning from stream_events when the buffer is empty
replay_get_all_events_return ==
    /\ cons.pc = "replay_read"
    /\ IF get_all_events(events) = <<>>
         THEN /\ cons' = Closed(cons)
              /\ hist' = [hist EXCEPT !.reason = "done_replay"]
              /\ Finally
         ELSE /\ cons' = [cons EXCEPT !.pc = "replay_yield",
                                      !.pending = Decoded(get_all_events(events))]
              /\ UNCHANGED <<subscribed, inbox, hist>>
    /\ UNCHANGED <<redisVars, job>>
    /\ UNCHANGED outside

\* PHASE 1: get_all_events
replay_get_all_events ==
    /\ cons.pc = "replay_read"
    /\ cons' = [cons EXCEPT !.pc = IF get_all_events(events) = <<>>
                                     THEN "live" ELSE "replay_yield",
                            !.pending = Decoded(get_all_events(events))]
    /\ UNCHANGED <<redisVars, subscribed, inbox, job, hist>>
    /\ UNCHANGED outside

\* the consumer after such a yield, sent_count not incremented
AfterUncountedYield(c, loop) ==
    [c EXCEPT !.pending = Tail(@),
              !.pc = IF Tail(c.pending) = <<>> THEN "live" ELSE loop]

\* the consumer after a yield of the replay or of the live suffix
AfterCountedYield(c, loop) ==
    [c EXCEPT !.pending = Tail(@),
              !.sent_count = @ + 1,
              !.pc = IF Tail(c.pending) = <<>> THEN "live" ELSE loop]

\* the replay passing over an undecodable entry without counting it
replay_yield_uncounted_error ==
    /\ cons.pc = "replay_yield"
    /\ IF Head(cons.pending) = JSONDecodeError
         THEN Continue(AfterUncountedYield(cons, "replay_yield"), "none")
         ELSE Yield(Head(cons.pending),
                    AfterCountedYield(cons, "replay_yield"),
                    IF Head(cons.pending).event = "done" THEN "done" ELSE "none")
    /\ UNCHANGED outside

\* PHASE 1: yield the next buffered event; a done event closes the stream
replay_yield ==
    /\ cons.pc = "replay_yield"
    /\ IF Head(cons.pending) = JSONDecodeError
         THEN Continue(AfterCountedYield(cons, "replay_yield"), "none")
         ELSE Yield(Head(cons.pending),
                    AfterCountedYield(cons, "replay_yield"),
                    IF Head(cons.pending).event = "done" THEN "done" ELSE "none")
    /\ UNCHANGED outside

\* PHASE 2: the ceiling of stream_events
TimedOut == cons.elapsed > max_wait_seconds

\* the timeout which also appends its error event to the job's buffer
live_timeout_buffered ==
    /\ cons.pc = "live"
    /\ TimedOut
    /\ events' = Append(events, _serialize_event(SubscriberTimeoutEvent))
    /\ cons' = Closed(cons)
    /\ hist' = [hist EXCEPT !.yielded = Append(@, SubscriberTimeoutEvent),
                            !.delivered = Append(@, EndpointTimeoutEvent),
                            !.reason = "timeout"]
    /\ Finally
    /\ UNCHANGED <<eventsTTL, doneKey, doneTTL, job>>
    /\ UNCHANGED outside

live_timeout ==
    /\ cons.pc = "live"
    /\ TimedOut
    /\ Yield(SubscriberTimeoutEvent, cons, "timeout")
    /\ UNCHANGED outside

\* PHASE 2: pubsub.get_message(timeout=1.0): the next message of the handle,
\* or None when there is none; a message that is not JSON is passed over
get_message ==
    /\ cons.pc = "live"
    /\ ~TimedOut
    /\ IF inbox # <<>>
         THEN /\ inbox' = Tail(inbox)
              /\ cons' = [cons EXCEPT !.pc = IF Head(inbox).type # "message"
                                               THEN "poll_done"
                                             ELSE IF json_loads(Head(inbox).data) = JSONDecodeError
                                               THEN "live"
                                             ELSE "count",
                                      !.saw = "none"]
         ELSE /\ inbox' = inbox
              /\ cons' = [cons EXCEPT !.pc = "poll_done", !.saw = "none"]
    /\ UNCHANGED <<redisVars, subscribed, job, hist>>
    /\ UNCHANGED outside

\* live event received: get_event_count, compared with sent_count
live_get_event_count ==
    /\ cons.pc = "count"
    /\ cons' = [cons EXCEPT !.pc = IF get_event_count(events) > cons.sent_count
                                     THEN "suffix" ELSE "live",
                            !.saw = IF get_event_count(events) > cons.sent_count
                                      THEN "none" ELSE "nothing_new"]
    /\ UNCHANGED <<redisVars, subscribed, inbox, job, hist>>
    /\ UNCHANGED outside

\* live event received: get_events_from(job_id, sent_count)
live_get_events_from ==
    /\ cons.pc = "suffix"
    /\ LET new_events == Decoded(get_events_from(events, cons.sent_count))
       IN cons' = [cons EXCEPT !.pc = IF new_events = <<>> THEN "live" ELSE "live_yield",
                               !.pending = new_events]
    /\ UNCHANGED <<redisVars, subscribed, inbox, job, hist>>
    /\ UNCHANGED outside

\* live event received: yield the next new event; a done event closes the stream
live_yield ==
    /\ cons.pc = "live_yield"
    /\ IF Head(cons.pending) = JSONDecodeError
         THEN Continue(AfterCountedYield(cons, "live_yield"), "none")
         ELSE Yield(Head(cons.pending),
                    AfterCountedYield(cons, "live_yield"),
                    IF Head(cons.pending).event = "done" THEN "done" ELSE "none")
    /\ UNCHANGED outside

\* no live message: is_done
poll_is_done ==
    /\ cons.pc = "poll_done"
    /\ cons' = [cons EXCEPT !.pc = IF is_done THEN "flush_count" ELSE "live",
                            !.saw = IF is_done THEN "none"
                                    ELSE IF HasDone(Decoded(events)) THEN "done_unmarked"
                                    ELSE "not_done"]
    /\ UNCHANGED <<redisVars, subscribed, inbox, job, hist>>
    /\ UNCHANGED outside

\* the poll that finds the job completed returning at once
flush_get_event_count_return ==
    /\ cons.pc = "flush_count"
    /\ cons' = Closed(cons)
    /\ hist' = [hist EXCEPT !.reason = "done_flush"]
    /\ Finally
    /\ UNCHANGED <<redisVars, job>>
    /\ UNCHANGED outside

\* job completed (checked): get_event_count, compared with sent_count
flush_get_event_count ==
    /\ cons.pc = "flush_count"
    /\ IF get_event_count(events) > cons.sent_count
         THEN /\ cons' = [cons EXCEPT !.pc = "flush_read"]
              /\ UNCHANGED <<subscribed, inbox, hist>>
         ELSE /\ cons' = Closed(cons)
              /\ hist' = [hist EXCEPT !.reason = "done_flush"]
              /\ Finally
    /\ UNCHANGED <<redisVars, job>>
    /\ UNCHANGED outside

\* job completed (checked): get_events_from(job_id, sent_count)
flush_get_events_from ==
    /\ cons.pc = "flush_read"
    /\ LET new_events == Decoded(get_events_from(events, cons.sent_count))
       IN IF new_events = <<>>
            THEN /\ cons' = Closed(cons)
                 /\ hist' = [hist EXCEPT !.reason = "done_flush"]
                 /\ Finally
            ELSE /\ cons' = [cons EXCEPT !.pc = "flush_yield", !.pending = new_events]
                 /\ UNCHANGED <<subscribed, inbox, hist>>
    /\ UNCHANGED <<redisVars, job>>
    /\ UNCHANGED outside

\* job completed (checked): yield the next remaining event
flush_yield ==
    /\ cons.pc = "flush_yield"
    /\ IF Head(cons.pending) = JSONDecodeError
         THEN Continue([cons EXCEPT !.pending = Tail(@)],
                       IF Tail(cons.pending) = <<>> THEN "done_flush" ELSE "none")
         ELSE Yield(Head(cons.pending),
                    [cons EXCEPT !.pending = Tail(@)],
                    IF Tail(cons.pending) = <<>> THEN "done_flush" ELSE "none")
    /\ UNCHANGED outside

ProducerNext ==
    \/ process_chat_job
    \/ graph_step
    \/ CollaboratorCall
    \/ append_event_rpush
    \/ append_event_expire
    \/ publish_event_publish
    \/ mark_done
    \/ StageFailure
    \/ JobTimeout
    \/ process_chat_job_return

ConsumerNext ==
    \/ stream_events_start
    \/ done_get_all_events
    \/ done_yield
    \/ subscribe
    \/ replay_get_all_events
    \/ replay_yield
    \/ live_timeout
    \/ get_message
    \/ live_get_event_count
    \/ live_get_events_from
    \/ live_yield
    \/ poll_is_done
    \/ flush_get_event_count
    \/ flush_get_events_from
    \/ flush_yield

Next ==
    \/ Tick
    \/ ProducerNext
    \/ ConsumerNext

Spec == Init /\ [][Next]_vars

(***************************************************************************)
(* The pipeline alone, over the answers its collaborators can give.  The   *)
(* job is a submitted one; no stream is requested and no time passes.      *)
(* The answer is one chunk.  Either the document directory varies and the  *)
(* keyword search finds nothing, or the documents all have text and the    *)
(* hits of the keyword search vary, or the retrieved sections are fixed    *)
(* (one per document) and the numerals of the response vary.               *)
(***************************************************************************)
filename(i) == "doc" \o ToString(i) \o ".pdf"

\* what the processor can tell of one document: one that cannot be opened,
\* one without extractable text, one whose first page is white space, one
\* with text
PDFMetadata(i) ==
    {[filename |-> filename(i), named |-> named, page1 |-> k.page1, chunks |-> k.chunks] :
        named \in BOOLEAN,
        k \in {[page1 |-> "none", chunks |-> <<>>],
                [page1 |-> "blank", chunks |-> <<>>],
                [page1 |-> "text", chunks |-> <<[page_num |-> 1, text |-> FALSE]>>],
                [page1 |-> "text", chunks |-> <<[page_num |-> 1, text |-> TRUE]>>]}}

\* the directories of n documents
RECURSIVE list_pdfs(_)
list_pdfs(n) ==
    IF n = 0 THEN {<<>>}
    ELSE {Append(pdfs, pdf) : pdfs \in list_pdfs(n - 1), pdf \in PDFMetadata(n)}

\* the sequences over S of at most n elements
RECURSIVE SeqsUpTo(_, _)
SeqsUpTo(S, n) ==
    IF n = 0 THEN {<<>>}
    ELSE SeqsUpTo(S, n - 1) \cup {Append(q, x) : q \in SeqsUpTo(S, n - 1), x \in S}

\* the hits search_text can return over a directory: a page of a document
\* that opens, the first page only if it has text
search_text(pdfs) ==
    {[filename |-> pdfs[i].filename, page_num |-> page_num] :
        i \in {j \in 1..Len(pdfs) : pdfs[j].page1 # "none"},
        page_num \in 1..2}
    \ {[filename |-> pdfs[i].filename, page_num |-> 1] :
        i \in {j \in 1..Len(pdfs) : pdfs[j].chunks # <<[page_num |-> 1, text |-> TRUE]>>}}

\* the directories of n documents with text
with_text(n) ==
    {pdfs \in list_pdfs(n) :
        \A i \in 1..n : pdfs[i].chunks = <<[page_num |-> 1, text |-> TRUE]>>}

\* a query without keyword, or one keyword the search does not find
FallbackInputs ==
    {[results |-> results, pdfs |-> pdfs, nTok |-> 1, blank |-> {}, numbers |-> <<>>, iter |-> <<>>] :
        results \in {<<>>, << <<>> >>},
        pdfs \in UNION {list_pdfs(n) : n \in 0..MaxPdfs}}

\* one keyword and its hits
KeywordInputs ==
    UNION {
        {[results |-> <<hits>>, pdfs |-> pdfs, nTok |-> 1, blank |-> {}, numbers |-> <<>>, iter |-> <<>>] :
            hits \in SeqsUpTo(search_text(pdfs), MaxHits)}
        : pdfs \in UNION {with_text(n) : n \in 1..MaxPdfs}}

\* the orders in which a set can be iterated
RECURSIVE Orders(_)
Orders(S) ==
    IF S = {} THEN {<<>>}
    ELSE UNION {{<<x>> \o o : o \in Orders(S \ {x})} : x \in S}

\* the numerals of the response: a digit up to one past the number of the
\* sections, or 1 written with a zero
Numerals == {<<d>> : d \in 0..(MaxPdfs + 1)} \cup {<<0, 1>>}

\* one section per document, found by the keyword
CitedDirectory ==
    [i \in 1..MaxPdfs |->
        [filename |-> filename(i), named |-> FALSE, page1 |-> "text",
         chunks |-> <<[page_num |-> 1, text |-> TRUE]>>]]

CitedResults ==
    <<[i \in 1..MaxPdfs |->
        [filename |-> filename(i), page_num |-> IF i = 1 THEN 2 ELSE 1]]>>

CitationInputs ==
    UNION {
        {[results |-> CitedResults, pdfs |-> CitedDirectory, nTok |-> 1, blank |-> {},
          numbers |-> numbers, iter |-> iter] : iter \in Orders(Range(numbers))}
        : numbers \in SeqsUpTo(Numerals, MaxNumbers)}

\* the answer: up to MaxChunks chunks, any of them with an empty content,
\* over an empty document directory
MaxChunks == 2

ChunkInputs ==
    UNION {
        {[NoDocuments(nTok) EXCEPT !.blank = blank] : blank \in SUBSET (1..nTok)}
        : nTok \in 0..MaxChunks}

InitPipeline ==
    \E inp \in FallbackInputs \cup KeywordInputs \cup CitationInputs \cup ChunkInputs :
        Start(TRUE, inp)

NextPipeline ==
    \/ process_chat_job
    \/ graph_step
    \/ CollaboratorCall
    \/ append_event_rpush
    \/ append_event_expire
    \/ publish_event_publish
    \/ mark_done
    \/ StageFailure
    \/ process_chat_job_return

SpecPipeline == InitPipeline /\ [][NextPipeline]_vars

(***************************************************************************)
(* The client reconnects: after a stream that the client left, it requests *)
(* the stream of the same job again, any number of times.  Each request    *)
(* runs event_generator and stream_events anew.  The job is a submitted    *)
(* one whose pipeline finds no document and streams no token.              *)
(***************************************************************************)
InitReconnect == Start(TRUE, NoDocuments(0))

stream_chat_response_again ==
    /\ cons.pc = "closed"
    /\ hist.reason = "cancelled"
    /\ cons' = [cons EXCEPT !.pc = "idle", !.sent_count = 0]
    /\ hist' = [hist EXCEPT !.yielded = <<>>, !.delivered = <<>>,
                            !.reason = "none", !.path = "none",
                            !.attempt = 2]
    /\ UNCHANGED <<redisVars, subscribed, inbox, job>>
    /\ UNCHANGED outside

NextReconnect ==
    \/ Next
    \/ stream_chat_response_again

SpecReconnect == InitReconnect /\ [][NextReconnect]_vars

(***************************************************************************)
(* Lost notifications.  Redis hands a published message to a handle at     *)
(* most once and keeps nothing for it; here none of the job's messages      *)
(* reaches the consumer's handle, so the consumer never sees a live         *)
(* message and learns of the events by its poll of the done marker alone.   *)
(* No time passes; the worker and the consumer each keep taking steps.      *)
(***************************************************************************)
\* publish_event STEP 2, the message reaching no handle
publish_event_publish_lost ==
    /\ AtCommand("publish")
    /\ job' = AfterCommand("publish")
    /\ hist' = [hist EXCEPT !.broadcast =
                     Append(@, [ev |-> CurrentOp.ev, at |-> Len(hist.appended)])]
    /\ UNCHANGED <<redisVars, subscribed, inbox, cons>>
    /\ UNCHANGED outside

InitLost == Start(TRUE, NoDocuments(0))

ProducerLost ==
    \/ process_chat_job
    \/ graph_step
    \/ CollaboratorCall
    \/ append_event_rpush
    \/ append_event_expire
    \/ publish_event_publish_lost
    \/ mark_done
    \/ process_chat_job_return

ConsumerLost ==
    \/ stream_events_start
    \/ done_get_all_events
    \/ done_yield
    \/ subscribe
    \/ replay_get_all_events
    \/ replay_yield
    \/ get_message
    \/ poll_is_done
    \/ flush_get_event_count
    \/ flush_get_events_from
    \/ flush_yield

NextLost ==
    \/ ProducerLost
    \/ ConsumerLost

SpecLost ==
    /\ InitLost /\ [][NextLost]_vars
    /\ WF_vars(ProducerLost)
    /\ WF_vars(ConsumerLost)

(***************************************************************************)
(* Entries that are not JSON.  The publisher writes only what json.dumps   *)
(* gives, so an undecodable entry comes from another writer to the job's   *)
(* key and channel: it pushes up to MaxMalformed undecodable strings to    *)
(* the list, anywhere between the publisher's appends, and may publish     *)
(* the string on the channel as well.  The job is one whose language model *)
(* cannot be reached: its first call fails, and its record is the start of *)
(* the first stage, the error and Done.  No time passes.                   *)
(***************************************************************************)
MaxMalformed == 1

\* the number of undecodable entries of a list
Malformed(list) == Cardinality({i \in 1..Len(list) : list[i] = undecodable})

\* an undecodable string is pushed to the job's list, and published on the
\* job's channel or not.  hist.grown records that the list has grown
\* between the consumer's get_event_count and its get_events_from
malformed_rpush ==
    /\ Malformed(events) < MaxMalformed
    /\ events' = Append(events, undecodable)
    /\ \E published \in BOOLEAN :
         inbox' = IF published /\ subscribed
                    THEN Append(inbox, [type |-> "message", data |-> undecodable])
                    ELSE inbox
    /\ hist' = [hist EXCEPT !.grown = @ \/ cons.pc = "suffix"]
    /\ UNCHANGED <<eventsTTL, doneKey, doneTTL, subscribed, job, cons>>
    /\ UNCHANGED outside

InitMalformed == Start(TRUE, NoDocuments(0))

NextMalformed ==
    \/ malformed_rpush
    \/ process_chat_job
    \/ graph_step
    \/ StageFailure
    \/ append_event_rpush
    \/ append_event_expire
    \/ publish_event_publish
    \/ mark_done
    \/ process_chat_job_return
    \/ stream_events_start
    \/ done_get_all_events
    \/ done_yield
    \/ subscribe
    \/ replay_get_all_events
    \/ replay_yield
    \/ get_message
    \/ live_get_event_count
    \/ live_get_events_from
    \/ live_yield
    \/ poll_is_done
    \/ flush_get_event_count
    \/ flush_get_events_from
    \/ flush_yield

SpecMalformed == InitMalformed /\ [][NextMalformed]_vars

(***************************************************************************)
(* Failures of the Redis connection of the subscriber.  Every Redis        *)
(* command of stream_events (exists, lrange, llen, get_message) can raise  *)
(* redis.RedisError.  Inside the try block the finally block runs on the   *)
(* way out; the exception reaches event_generator, whose except clause     *)
(* sends one error event with the exception's text, not recoverable.  The  *)
(* job is one whose language model cannot be reached; the clock runs.      *)
(***************************************************************************)
\* the event of event_generator's except clause
EndpointErrorEvent == ErrorEvent("RedisError", "false")

\* the places of stream_events at which a Redis command comes next
AtRedisCommand(pc) ==
    pc \in {"idle", "done_read", "replay_read", "live", "count", "suffix",
            "poll_done", "flush_count", "flush_read"}

\* a Redis command of stream_events raises
stream_events_raise ==
    /\ AtRedisCommand(cons.pc)
    /\ cons.pc = "live" => ~TimedOut
    /\ cons' = Closed(cons)
    /\ hist' = [hist EXCEPT !.delivered = Append(@, EndpointErrorEvent),
                            !.reason = "exception"]
    /\ IF subscribed THEN Finally ELSE UNCHANGED <<subscribed, inbox>>
    /\ UNCHANGED <<redisVars, job>>
    /\ UNCHANGED outside

InitFaults == Start(TRUE, NoDocuments(0))

NextFaults ==
    \/ Tick
    \/ process_chat_job
    \/ graph_step
    \/ StageFailure
    \/ append_event_rpush
    \/ append_event_expire
    \/ publish_event_publish
    \/ mark_done
    \/ JobTimeout
    \/ process_chat_job_return
    \/ ConsumerNext
    \/ stream_events_raise

SpecFaults == InitFaults /\ [][NextFaults]_vars

(***************************************************************************)
(* The crash of the producer.  The worker process can die at any point of  *)
(* the job (killed, out of memory, host lost): no handler runs and the job *)
(* takes no further step.  The job is one whose language model cannot be   *)
(* reached; the clock runs.                                                *)
(***************************************************************************)
\* the worker process dies
worker_crash ==
    /\ job.state = "running"
    /\ job' = [job EXCEPT !.state = "crashed", !.elapsed = 0]
    /\ UNCHANGED <<redisVars, subscribed, inbox, cons, hist>>
    /\ UNCHANGED outside

InitCrash == Start(TRUE, NoDocuments(0))

NextCrash ==
    \/ Tick
    \/ process_chat_job
    \/ graph_step
    \/ StageFailure
    \/ append_event_rpush
    \/ append_event_expire
    \/ publish_event_publish
    \/ mark_done
    \/ JobTimeout
    \/ process_chat_job_return
    \/ worker_crash
    \/ ConsumerNext

SpecCrash == InitCrash /\ [][NextCrash]_vars

(***************************************************************************)
(* The status operation.  The queue runtime reports the lifecycle state of *)
(* a job it knows: the one the job of the model is in, or one of those     *)
(* that only operations of the runtime itself give a job (a dependency, a  *)
(* schedule, a stop or a cancel command), none of which the program        *)
(* issues.  No stream is requested and no time passes.                     *)
(***************************************************************************)
status_map ==
    [queued |-> "queued", started |-> "started", finished |-> "finished", failed |-> "failed"]

\* dict.get without its default
dict_get_absent(d, key, default) == IF key \in DOMAIN d THEN d[key] ELSE "absent"

\* dict.get(key, default)
dict_get(d, key, default) == IF key \in DOMAIN d THEN d[key] ELSE default

\* job.get_status() for the job of the model
get_status(j) ==
    CASE j.state = "queued" -> "queued"
      [] j.state = "running" -> "started"
      [] j.state = "finished" -> "finished"
      [] j.state = "failed" -> "failed"

\* the lifecycle states of the runtime that no step of the program leads to
RuntimeOnlyStatus == {"deferred", "scheduled", "stopped", "canceled"}

\* GET /chat/{job_id}/status for the identifier of the job of the model:
\* Job.fetch raises for an identifier the runtime does not know
get_job_status ==
    /\ IF job.state = "none"
         THEN api' = [api EXCEPT !.job_status = HTTPException(404), !.reported = "absent"]
         ELSE \E reported \in {get_status(job)} \cup RuntimeOnlyStatus :
                api' = [api EXCEPT
                          !.job_status = JobStatus(job.id, dict_get(status_map, reported, "unknown")),
                          !.reported = reported]
    /\ UNCHANGED <<redisVars, subscribed, inbox, job, cons, hist, other>>

InitStatus == \E known \in BOOLEAN : Start(known, NoDocuments(MaxTokens))

NextStatus ==
    \/ NextPipeline
    \/ get_job_status

SpecStatus == InitStatus /\ [][NextStatus]_vars

(***************************************************************************)
(* The job function and the queue runtime.  A Redis command of             *)
(* publish_event can raise (the connection is lost), in a stage and in     *)
(* the handlers alike, up to MaxRaises exceptions in a job.  An exception  *)
(* that leaves process_chat_job makes the runtime record the job as        *)
(* failed; a return, whatever it returns, makes it record the job as       *)
(* finished.  No stream is requested and no time passes.                   *)
(***************************************************************************)
MaxRaises == 3

\* the "status" entry of the dictionary process_chat_job returns
process_chat_job_result(j) ==
    IF j.frame = "worker_except" THEN "failed" ELSE "completed"

\* a Redis command of publish_event raises
publish_event_raise ==
    /\ AtOp /\ ~AlarmDue
    /\ CurrentOp.op = "pub"
    /\ Len(hist.raised) < MaxRaises
    /\ job' = Raise(job)
    /\ hist' = [hist EXCEPT !.raised = Append(@, Len(hist.appended))]
    /\ UNCHANGED <<redisVars, subscribed, inbox, cons>>
    /\ UNCHANGED outside

InitRuntime == \E known \in BOOLEAN : Start(known, NoDocuments(MaxTokens))

NextRuntime ==
    \/ NextPipeline
    \/ publish_event_raise
    \/ get_job_status

SpecRuntime == InitRuntime /\ [][NextRuntime]_vars

(***************************************************************************)
(* Two jobs.  create_chat is called for up to MaxSubmissions chat requests; *)
(* the first job enqueued is the job of the model, the second is another    *)
(* job that a second worker runs at the same time over the same Redis.  Of the other job's run the model keeps its publish_event calls:  *)
(* one event that no stage of the first job publishes, then Done.  A key    *)
(* or a channel of the other job is that of the first job exactly when the  *)
(* two names are equal.  No time passes.                                    *)
(***************************************************************************)
MaxSubmissions == 3

\* create_chat up to the return of queue.enqueue, which the runtime may
\* refuse (except Exception: HTTPException 500)
create_chat_enqueue ==
    /\ api.pc = "idle"
    /\ Len(api.responses) < MaxSubmissions
    /\ job.state = "none" \/ other.state = "none"
    /\ \E enqueued \in BOOLEAN :
         LET job_id == uuid4(api.uuids) IN
         IF enqueued
           THEN /\ api' = [api EXCEPT !.uuids = @ + 1, !.pc = "enqueued", !.job_id = job_id]
                /\ IF job.state = "none"
                     THEN /\ job' = [job EXCEPT !.state = "queued", !.id = job_id]
                          /\ other' = other
                     ELSE /\ other' = [other EXCEPT !.state = "queued", !.id = job_id]
                          /\ job' = job
           ELSE /\ api' = [api EXCEPT !.uuids = @ + 1,
                                      !.responses = Append(@, HTTPException(500))]
                /\ UNCHANGED <<job, other>>
    /\ UNCHANGED <<redisVars, subscribed, inbox, cons, hist>>

\* create_chat: return ChatResponse(job_id=job_id, status="queued")
create_chat_return ==
    /\ api.pc = "enqueued"
    /\ api' = [api EXCEPT !.pc = "idle", !.job_id = 0,
                          !.responses = Append(@, ChatResponse(api.job_id, "queued"))]
    /\ UNCHANGED <<redisVars, subscribed, inbox, job, cons, hist, other>>

\* the events the other job publishes
other_events == <<ErrorEvent("the other job", "false"), DoneEvent>>

\* the other job is at the command cmd of a publish_event
OtherAt(cmd) ==
    /\ other.state = "running"
    /\ other.idx <= Len(other_events)
    /\ publish_event(other.sub, other_events[other.idx]) = cmd

\* the other job after the command cmd
OtherAfter(cmd) ==
    IF publish_event(cmd, other_events[other.idx]) = "return"
      THEN [other EXCEPT !.idx = @ + 1, !.sub = "enter"]
      ELSE [other EXCEPT !.sub = cmd]

\* a worker takes the other job from the queue
other_process_chat_job ==
    /\ other.state = "queued"
    /\ other' = [other EXCEPT !.state = "running"]
    /\ UNCHANGED <<redisVars, subscribed, inbox, job, cons, hist, api>>

\* append_event of the other job: rpush on the list of its identifier
other_append_event_rpush ==
    /\ OtherAt("rpush")
    /\ LET event_json == _serialize_event(other_events[other.idx]) IN
       IF _get_event_key(other.id) = _get_event_key(job.id)
         THEN /\ events' = Append(events, event_json)
              /\ other' = OtherAfter("rpush")
         ELSE /\ events' = events
              /\ other' = [OtherAfter("rpush") EXCEPT !.events = Append(@, event_json)]
    /\ UNCHANGED <<eventsTTL, doneKey, doneTTL, subscribed, inbox, job, cons, hist, api>>

\* append_event of the other job: expire
other_append_event_expire ==
    /\ OtherAt("expire")
    /\ IF _get_event_key(other.id) = _get_event_key(job.id)
         THEN /\ eventsTTL' = IF events # <<>> THEN EVENT_TTL_SECONDS ELSE eventsTTL
              /\ other' = OtherAfter("expire")
         ELSE /\ eventsTTL' = eventsTTL
              /\ other' = [OtherAfter("expire") EXCEPT
                             !.eventsTTL = IF other.events # <<>>
                                             THEN EVENT_TTL_SECONDS ELSE @]
    /\ UNCHANGED <<events, doneKey, doneTTL, subscribed, inbox, job, cons, hist, api>>

\* publish of the other job on the channel of its identifier
other_publish_event_publish ==
    /\ OtherAt("publish")
    /\ inbox' = IF subscribed /\ _get_channel_name(other.id) = _get_channel_name(job.id)
                  THEN Append(inbox, [type |-> "message",
                                      data |-> _serialize_event(other_events[other.idx])])
                  ELSE inbox
    /\ other' = OtherAfter("publish")
    /\ UNCHANGED <<redisVars, subscribed, job, cons, hist, api>>

\* mark_done of the other job
other_mark_done ==
    /\ OtherAt("mark_done")
    /\ IF _get_done_key(other.id) = _get_done_key(job.id)
         THEN /\ doneKey' = TRUE
              /\ doneTTL' = EVENT_TTL_SECONDS
              /\ other' = OtherAfter("mark_done")
         ELSE /\ UNCHANGED <<doneKey, doneTTL>>
              /\ other' = [OtherAfter("mark_done") EXCEPT
                             !.doneKey = TRUE, !.doneTTL = EVENT_TTL_SECONDS]
    /\ UNCHANGED <<events, eventsTTL, subscribed, inbox, job, cons, hist, api>>

\* process_chat_job of the other job returns
other_process_chat_job_return ==
    /\ other.state = "running"
    /\ other.idx > Len(other_events)
    /\ other' = [other EXCEPT !.state = "finished"]
    /\ UNCHANGED <<redisVars, subscribed, inbox, job, cons, hist, api>>

InitSubmit == Submitted(0, NoDocuments(0))

NextSubmit ==
    \/ create_chat_enqueue
    \/ create_chat_return
    \/ process_chat_job
    \/ graph_step
    \/ CollaboratorCall
    \/ append_event_rpush
    \/ append_event_expire
    \/ publish_event_publish
    \/ mark_done
    \/ process_chat_job_return
    \/ other_process_chat_job
    \/ other_append_event_rpush
    \/ other_append_event_expire
    \/ other_publish_event_publish
    \/ other_mark_done
    \/ other_process_chat_job_return

SpecSubmit == InitSubmit /\ [][NextSubmit]_vars

\* both chat requests have been accepted; the stream of the first job is
\* requested
InitJobs == Submitted(2, NoDocuments(0))

NextJobs ==
    \/ process_chat_job
    \/ graph_step
    \/ CollaboratorCall
    \/ append_event_rpush
    \/ append_event_expire
    \/ publish_event_publish
    \/ mark_done
    \/ process_chat_job_return
    \/ other_process_chat_job
    \/ other_append_event_rpush
    \/ other_append_event_expire
    \/ other_publish_event_publish
    \/ other_mark_done
    \/ other_process_chat_job_return
    \/ stream_events_start
    \/ done_get_all_events
    \/ done_yield
    \/ subscribe
    \/ replay_get_all_events
    \/ replay_yield
    \/ get_message
    \/ live_get_event_count
    \/ live_get_events_from
    \/ live_yield
    \/ poll_is_done
    \/ flush_get_event_count
    \/ flush_get_events_from
    \/ flush_yield

SpecJobs == InitJobs /\ [][NextJobs]_vars

(***************************************************************************)
(* C1.  Race-free attach: a consumer that attaches while is_done is false  *)
(* (so it subscribes, replays and goes live) and ends neither cancelled    *)
(* nor timed out has been yielded, and has delivered to the client,        *)
(* exactly the events the producer appended, in append order, through      *)
(* Done, whatever the interleaving of the producer's Redis commands with   *)
(* the consumer's.                                                         *)
(***************************************************************************)
EndedNormally == cons.pc = "closed" /\ hist.reason \notin {"timeout", "cancelled"}

RaceFreeAttach ==
    (EndedNormally /\ hist.path = "subscribe")
        => /\ hist.delivered = ThroughDone(hist.appended)
           /\ hist.yielded = hist.delivered
           /\ HasDone(hist.delivered)

\* a consumer that attached in the middle of production, when part of the
\* events were already in the buffer, has ended on Done in the live phase
RaceFreeAttachWitness ==
    /\ EndedNormally /\ hist.path = "subscribe"
    /\ cons.sent_count > 0 /\ cons.sent_count < Len(hist.delivered)

(***************************************************************************)
(* C2.  No-loss on late attach: a consumer that starts when is_done is     *)
(* already true never subscribes to the channel, and what it yields is the *)
(* job's buffer in append order, each entry once: while it yields, the     *)
(* entries yielded and those still to yield are the events appended,       *)
(* through Done at least, and when it has ended on Done it has yielded     *)
(* exactly the events appended through Done.  (A buffer that has expired   *)
(* reads as empty; the consumer then yields nothing.)                      *)
(***************************************************************************)
NoLossLateAttach ==
    hist.path = "done"
        => /\ ~subscribed /\ inbox = <<>>
           /\ cons.pc = "done_yield"
                => /\ IsPrefix(hist.yielded \o cons.pending, hist.appended)
                   /\ IsPrefix(ThroughDone(hist.appended), hist.yielded \o cons.pending)
                   /\ HasDone(cons.pending)
           /\ (EndedNormally /\ hist.yielded # <<>>)
                => /\ hist.yielded = ThroughDone(hist.appended)
                   /\ hist.delivered = hist.yielded
                   /\ HasDone(hist.yielded)

\* a late consumer has ended with the whole record of a job that failed in a stage
NoLossLateAttachWitness ==
    /\ hist.path = "done" /\ EndedNormally
    /\ Len(hist.yielded) > 2
    /\ hist.yielded = hist.appended
    /\ \E i \in 1..Len(hist.yielded) : hist.yielded[i].event = "error"

(***************************************************************************)
(* C3.  Buffer-before-broadcast: every notification broadcast on the job's *)
(* channel is of an event appended to the buffer before: each broadcast    *)
(* is of the event appended last before it, every message waiting in the   *)
(* consumer's handle is of an appended event, and when the producer is     *)
(* about to publish an event that event is the last entry of the list.     *)
(***************************************************************************)
BufferBeforeBroadcast ==
    /\ \A i \in 1..Len(hist.broadcast) :
         /\ hist.broadcast[i].at \in 1..Len(hist.appended)
         /\ hist.appended[hist.broadcast[i].at] = hist.broadcast[i].ev
         /\ \A k \in 1..(i - 1) : hist.broadcast[k].at < hist.broadcast[i].at
    /\ \A i \in 1..Len(inbox) :
         inbox[i].type = "message"
           => \E k \in 1..Len(hist.appended) : hist.appended[k] = json_loads(inbox[i].data)
    /\ AtCommand("publish")
         => events # <<>> /\ json_loads(events[Len(events)]) = CurrentOp.ev

\* a notification waits in the consumer's handle and its event is in the list
BufferBeforeBroadcastWitness ==
    /\ Len(inbox) > 0
    /\ inbox[Len(inbox)].type = "message"
    /\ events # <<>>
    /\ inbox[Len(inbox)].data = events[Len(events)]

(***************************************************************************)
(* C4.  Idempotent replay-to-live handoff: a notification is a wake-up     *)
(* signal only.  What the consumer has yielded is at all times the first   *)
(* sent_count events appended, each once; a wake-up for an event already   *)
(* yielded (by the replay or by an earlier suffix read) finds the count    *)
(* equal to sent_count, yields nothing and returns to waiting.             *)
(***************************************************************************)
IdempotentHandoff ==
    hist.path = "subscribe"
        => /\ IsPrefix(SelectSeq(hist.yielded, LAMBDA e : e # SubscriberTimeoutEvent),
                       hist.appended)
           /\ cons.pc \in {"live", "count", "suffix", "poll_done", "flush_count", "flush_read"}
                => cons.sent_count = Len(hist.yielded)
           /\ cons.saw = "nothing_new"
                => cons.pc = "live" /\ cons.pending = <<>>

\* a notification of an event the consumer had already yielded woke it up
IdempotentHandoffWitness ==
    /\ cons.saw = "nothing_new"
    /\ cons.sent_count > 0
    /\ cons.sent_count = Len(events)

(***************************************************************************)
(* C5.  The claim: a done event in the buffer and the done marker appear   *)
(* atomically, so an is_done check of the consumer never answers false     *)
(* while the buffer holds the done event.                                  *)
(***************************************************************************)
DoneAppendAtomic ==
    (cons.pc \in {"idle", "poll_done"} /\ HasDone(Decoded(events))) => is_done

(***************************************************************************)
(* C5 as amended.  The done marker is set after the done event has been    *)
(* appended and broadcast, in a command of its own: is_done true implies   *)
(* that the done event was appended and broadcast, and not the converse.   *)
(***************************************************************************)
DoneMarkerAfterDone ==
    is_done
        => /\ HasDone(hist.appended)
           /\ \E i \in 1..Len(hist.broadcast) : hist.broadcast[i].ev.event = "done"

\* the consumer's poll found is_done false while the list held the done event
DoneMarkerAfterDoneWitness ==
    cons.saw = "done_unmarked"

(***************************************************************************)
(* C6.  Timeout: a stream that ends on the 300-second ceiling has          *)
(* delivered exactly one synthetic error event to the client, as its last  *)
(* event, and nothing is delivered to the client of a stream that is over. *)
(***************************************************************************)
IsTimeoutEvent(e) == e.event = "error" /\ e.message = "Stream timeout"

TimeoutEndsStream ==
    /\ [](hist.reason = "timeout"
            => /\ cons.pc = "closed"
               /\ hist.delivered # <<>>
               /\ \A i \in 1..Len(hist.delivered) :
                    IsTimeoutEvent(hist.delivered[i]) <=> i = Len(hist.delivered))
    /\ [](hist.reason # "timeout"
            => \A i \in 1..Len(hist.delivered) : ~IsTimeoutEvent(hist.delivered[i]))
    /\ [][cons.pc = "closed" => hist'.delivered = hist.delivered]_vars

\* the stream of a job that never produced anything ended on the ceiling
TimeoutEndsStreamWitness ==
    /\ hist.reason = "timeout"
    /\ hist.appended = <<>>
    /\ hist.yielded = <<SubscriberTimeoutEvent>>
    /\ Len(hist.delivered) = 1

(***************************************************************************)
(* C7.  The claim: the synthetic error event the Stream Consumer emits at  *)
(* the 5-minute ceiling is non-recoverable: every timeout event that       *)
(* stream_events has yielded carries recoverable = false.                  *)
(***************************************************************************)
TimeoutNotRecoverable ==
    \A i \in 1..Len(hist.yielded) :
        IsTimeoutEvent(hist.yielded[i]) => hist.yielded[i].recoverable = "false"

(***************************************************************************)
(* C8.  The claim: the stream ends on an error event with                  *)
(* recoverable = false; no event is delivered to the client after one.     *)
(***************************************************************************)
EndsOnNonRecoverableError ==
    \A i \in 1..Len(hist.delivered) :
        (hist.delivered[i].event = "error" /\ hist.delivered[i].recoverable = "false")
            => i = Len(hist.delivered)

(***************************************************************************)
(* C8 as amended.  The stream ends on a done event and on the synthetic    *)
(* timeout error: none of them is followed by another event.  An error     *)
(* event of the producer with recoverable = false does not end the stream: *)
(* a stream that ends neither cancelled nor timed out and has delivered    *)
(* such an error has delivered the done event after it.                    *)
(***************************************************************************)
IsProducerError(e) == e.event = "error" /\ e.recoverable = "false" /\ ~IsTimeoutEvent(e)

EndsOnDoneOrTimeout ==
    /\ \A i \in 1..Len(hist.delivered) :
         (hist.delivered[i].event = "done" \/ IsTimeoutEvent(hist.delivered[i]))
            => i = Len(hist.delivered)
    /\ \A i \in 1..Len(hist.delivered) :
         (EndedNormally /\ IsProducerError(hist.delivered[i]))
            => /\ i < Len(hist.delivered)
               /\ hist.delivered[Len(hist.delivered)].event = "done"

\* the client got a non-recoverable error event and then the done event
EndsOnDoneOrTimeoutWitness ==
    /\ EndedNormally
    /\ Len(hist.delivered) > 1
    /\ IsProducerError(hist.delivered[Len(hist.delivered) - 1])
    /\ hist.delivered[Len(hist.delivered)].event = "done"

(***************************************************************************)
(* C9.  The claim: a stream request for a job identifier unknown to the    *)
(* system is answered NotFound at once, without waiting.                   *)
(***************************************************************************)
UnknownJobNotFound ==
    (job.state = "none" /\ cons.pc # "idle")
        => cons.pc = "closed" /\ hist.reason = "not_found"

(***************************************************************************)
(* C9 as amended.  A stream request for an unknown job identifier is not   *)
(* answered NotFound: the consumer subscribes, replays the empty buffer    *)
(* and waits in the live phase; the stream ends only at the 300-second     *)
(* ceiling, with the synthetic timeout error as its only event (with no    *)
(* event if the client has gone by then).                                  *)
(***************************************************************************)
UnknownJobWaits ==
    (job.state = "none" /\ cons.pc # "idle")
        => /\ hist.path = "subscribe"
           /\ cons.pc \in {"subscribe", "replay_read", "live", "poll_done", "closed"}
           /\ cons.pc # "closed" => hist.delivered = <<>> /\ hist.reason = "none"
           /\ cons.pc = "closed"
                => \/ hist.reason = "timeout" /\ hist.delivered = <<EndpointTimeoutEvent>>
                   \/ hist.reason = "cancelled" /\ hist.delivered = <<>>

\* the stream of an unknown job waits in the live phase, and it has timed out
UnknownJobWaitsWitness ==
    /\ job.state = "none"
    /\ hist.reason = "timeout"
    /\ hist.delivered = <<EndpointTimeoutEvent>>

(***************************************************************************)
(* C10.  The consumer performs no writes: no step of stream_events or of   *)
(* event_generator, however the stream ends, changes the job's buffer, its *)
(* done marker, their retention timers or the producer; and no entry of    *)
(* the buffer is a timeout error.                                          *)
(***************************************************************************)
ConsumerPerformsNoWrites ==
    /\ [][ConsumerNext
            => /\ UNCHANGED <<events, eventsTTL, doneKey, doneTTL, job>>
               /\ hist'.appended = hist.appended
               /\ hist'.broadcast = hist.broadcast]_vars
    /\ [](\A i \in 1..Len(events) : ~IsTimeoutEvent(json_loads(events[i])))

\* a stream ended on its ceiling while the job's buffer held events
ConsumerPerformsNoWritesWitness ==
    /\ hist.reason = "timeout"
    /\ events # <<>>
    /\ hist.yielded # <<>>
    /\ hist.yielded[Len(hist.yielded)] = SubscriberTimeoutEvent

(***************************************************************************)
(* C11.  Consumer-side disconnect cancels only the consumer.  The step in  *)
(* which the client is found gone changes neither the producer nor the     *)
(* store; a job that ran without failure has appended every event of the   *)
(* pipeline through Done, and when process_chat_job returns the done       *)
(* marker is set; and a stream requested after a disconnect that ends      *)
(* neither cancelled nor timed out, before the buffer expired, has         *)
(* delivered the record from the first event through Done.                 *)
(***************************************************************************)
DisconnectCancelsOnlyConsumer ==
    /\ [][(hist'.reason = "cancelled" /\ hist.reason # "cancelled")
            => UNCHANGED <<redisVars, job>> /\ hist'.appended = hist.appended]_vars
    /\ [][(job.state = "running" /\ job'.state = "finished")
            => doneKey /\ HasDone(hist.appended)]_vars
    /\ []((job.state = "finished" /\ job.failures = 0 /\ ~job.alarm)
            => hist.appended = PubEvents(create_agent_graph(job.agent.inp)))
    /\ []((hist.attempt = 2 /\ EndedNormally /\ hist.yielded # <<>>)
            => /\ hist.delivered = ThroughDone(hist.appended)
               /\ hist.delivered[1] = hist.appended[1]
               /\ HasDone(hist.delivered))

\* after a disconnect in the middle of production the job finished without
\* failure, and a later stream request got the whole record
DisconnectCancelsOnlyConsumerWitness ==
    /\ hist.attempt = 2 /\ EndedNormally
    /\ job.state = "finished" /\ job.failures = 0 /\ ~job.alarm
    /\ hist.delivered = hist.appended
    /\ Len(hist.delivered) > 2

(***************************************************************************)
(* C12.  An unhandled failure in a stage: when one exception has been      *)
(* raised in the pipeline (a collaborator of a stage raised, or the job    *)
(* timeout was raised in a stage) the events appended before it are the    *)
(* first events of the forward chain, what is appended after it is the     *)
(* error event with recoverable = false and then Done and nothing else,    *)
(* and when the handler is through both are appended and the done marker   *)
(* is set (it stays until its retention ends, after the job): no stage     *)
(* runs after the failure.                                                 *)
(***************************************************************************)
AppendedSince(n) == SubSeq(hist.appended, n + 1, Len(hist.appended))

StageFailureHalts ==
    job.frame = "run_agent_except"
        => /\ Len(hist.raised) = 1
           /\ IsPrefix(SubSeq(hist.appended, 1, hist.raised[1]),
                       PubEvents(create_agent_graph(job.agent.inp)))
           /\ IsPrefix(AppendedSince(hist.raised[1]),
                       <<ErrorEvent("exception", "false"), DoneEvent>>)
           /\ job.idx > Len(run_agent_except)
                => /\ AppendedSince(hist.raised[1])
                        = <<ErrorEvent("exception", "false"), DoneEvent>>
                   /\ job.state = "running" => is_done

\* the collaborator of a stage after the first raised, and the job ended
\* with the error event and Done after the events of the stages before
StageFailureHaltsWitness ==
    /\ job.state = "finished" /\ job.frame = "run_agent_except"
    /\ job.failures = 1
    /\ hist.raised[1] > 3
    /\ Len(hist.appended) = hist.raised[1] + 2

\* ---------------------------------------------------------------------
\* C13: the pipeline is a strict forward chain: the stages a run executes
\* are, in this order and each at most once, Analyze, Retrieve, Extract,
\* Synthesize, Generate UI, Finalize; a run that ends without having run
\* all six left the chain through an exception into the error handling,
\* and every event is published by the stage then running or by that
\* error handling.
StageOrder ==
    <<"analyze_query", "search_documents", "extract_content",
      "synthesize_answer", "generate_ui_blocks", "finalize">>

StrictForwardChain ==
    /\ IsPrefix(hist.stages, StageOrder)
    /\ job.frame = "graph" /\ job.node \notin {START, END}
           => hist.stages # <<>> /\ job.node = hist.stages[Len(hist.stages)]
    /\ job.frame = "graph" /\ job.node = END => hist.stages = StageOrder
    /\ job.frame # "graph" => hist.raised # <<>>
    /\ job.state = "finished" /\ hist.raised = <<>> => hist.stages = StageOrder
    /\ LET staged == SelectSeq(hist.by,
                               LAMBDA b : b \notin {"run_agent_except", "worker_except"})
       IN \A i \in 1..Len(staged) :
              /\ staged[i] \in Range(hist.stages)
              /\ i > 1 => Position(StageOrder, staged[i - 1]) <= Position(StageOrder, staged[i])

StrictForwardChainWitness ==
    /\ job.state = "finished" /\ hist.raised = <<>>
    /\ hist.stages = StageOrder
    /\ Range(StageOrder) \ {"generate_ui_blocks"} \subseteq Range(hist.by)

\* ---------------------------------------------------------------------
\* the events a stage has appended, in order
EventsBy(stage) ==
    LET at == SelectSeq([i \in 1..Len(hist.by) |-> i], LAMBDA i : hist.by[i] = stage)
    IN [k \in 1..Len(at) |-> hist.appended[at[k]]]

IsToolEvent(e) == e.event \in {"tool_call_start", "tool_call_end"}

\* the job has returned and nothing was raised in it
RanWithoutFailure == job.state = "finished" /\ hist.raised = <<>>

\* C14 as stated: in a run without failure each of the six stages appends
\* a ToolStart before, and a ToolEnd after, every other event it appends.
EveryStageBracketed ==
    RanWithoutFailure =>
        \A stage \in Range(StageOrder) :
            LET evs == EventsBy(stage)
            IN /\ evs # <<>>
               /\ evs[1].event = "tool_call_start"
               /\ evs[Len(evs)].event = "tool_call_end"
               /\ \A k \in 2..(Len(evs) - 1) : ~IsToolEvent(evs[k])

\* C14, amended: in a run without failure Analyze, Retrieve, Extract and
\* Synthesize each append one ToolStart, as their first event, and one
\* ToolEnd; the ToolEnd is the last event of Analyze, Retrieve and Extract
\* and every TextChunk and UIBlock of these four stages lies between the
\* two; the Citation events of Synthesize all come after its ToolEnd, and
\* nothing else does; Generate UI appends at most the Table UIBlock and
\* Finalize only Done, neither with a tool event.
StagesToolEvents ==
    RanWithoutFailure =>
        /\ \A stage \in {"analyze_query", "search_documents", "extract_content",
                          "synthesize_answer"} :
              LET evs == EventsBy(stage)
                  ends == {k \in 1..Len(evs) : evs[k].event = "tool_call_end"}
              IN /\ Len(evs) >= 2
                 /\ evs[1].event = "tool_call_start"
                 /\ \A k \in 2..Len(evs) : evs[k].event # "tool_call_start"
                 /\ Cardinality(ends) = 1
                 /\ \A k \in 1..Len(evs), e \in ends :
                       /\ evs[k].event \in {"text_chunk", "ui_block"} => k < e
                       /\ evs[k].event = "citation" => k > e
                       /\ k > e => stage = "synthesize_answer" /\ evs[k].event = "citation"
        /\ \A k \in 1..Len(EventsBy("generate_ui_blocks")) :
              EventsBy("generate_ui_blocks")[k] = UIBlockEvent("Table")
        /\ Len(EventsBy("generate_ui_blocks")) <= 1
        /\ EventsBy("finalize") = <<DoneEvent>>

StagesToolEventsWitness ==
    /\ RanWithoutFailure
    /\ \E k \in 1..Len(EventsBy("synthesize_answer")) :
           EventsBy("synthesize_answer")[k].event = "text_chunk"
    /\ \E k \in 1..Len(EventsBy("synthesize_answer")) :
           EventsBy("synthesize_answer")[k].event = "citation"
    /\ EventsBy("generate_ui_blocks") = <<UIBlockEvent("Table")>>

\* ---------------------------------------------------------------------
\* C15: in a run in which no stage fails, Finalize appends exactly one
\* Done event, it is the last event of the job's buffer, the buffer holds
\* no Error event, and the done marker is set afterwards (never before the
\* Done event is in the buffer).
FinalizeAppendsDone ==
    /\ RanWithoutFailure =>
          /\ Cardinality({i \in 1..Len(events) : json_loads(events[i]).event = "done"}) = 1
          /\ json_loads(events[Len(events)]) = DoneEvent
          /\ hist.by[Len(hist.by)] = "finalize"
          /\ EventsBy("finalize") = <<DoneEvent>>
          /\ \A i \in 1..Len(events) : json_loads(events[i]).event # "error"
          /\ doneKey
    /\ hist.raised = <<>> /\ doneKey =>
          events # <<>> /\ json_loads(events[Len(events)]) = DoneEvent

FinalizeAppendsDoneWitness ==
    /\ RanWithoutFailure
    /\ doneKey
    /\ Len(events) > 10
    /\ json_loads(events[Len(events)]) = DoneEvent

\* ---------------------------------------------------------------------
\* the citations of the Citation events appended
CitationsAppended ==
    {hist.appended[i].citation : i \in {k \in 1..Len(hist.appended) :
                                            hist.appended[k].event = "citation"}}

\* C16: for every integer n in a citation marker of the generated text a
\* Citation event with number n is emitted if and only if n is between 1
\* and the number of retrieved sections, and it carries the document name
\* and the page of the n-th retrieved section; numbers out of range, 0
\* included, produce no event and no error.
CitationBounds ==
    RanWithoutFailure =>
        LET sections == job.agent.relevant_documents
            cited == {int(num_str) : num_str \in Range(job.agent.inp.numbers)}
        IN /\ \A n \in cited :
                  (\E c \in CitationsAppended : c.id = n) <=> (1 <= n /\ n <= Len(sections))
           /\ \A c \in CitationsAppended :
                  /\ c.id \in cited
                  /\ 1 <= c.id /\ c.id <= Len(sections)
                  /\ c.document_name = sections[c.id].filename
                  /\ c.page_number = sections[c.id].page_num
           /\ \A i \in 1..Len(hist.appended) : hist.appended[i].event # "error"

CitationBoundsWitness ==
    /\ RanWithoutFailure
    /\ Len(job.agent.relevant_documents) = MaxPdfs
    /\ job.agent.inp.numbers = << <<MaxPdfs + 1>>, <<1>> >>
    /\ CitationsAppended = {[id |-> 1, document_name |-> filename(1), page_number |-> 2]}

\* ---------------------------------------------------------------------
\* C17: citation numbers are unique within a response: for one job at most
\* one Citation event is emitted per citation number, however the number
\* is written in the text.
UniqueCitationNumbers ==
    \A i, k \in 1..Len(hist.appended) :
        /\ hist.appended[i].event = "citation"
        /\ hist.appended[k].event = "citation"
        /\ hist.appended[i].citation.id = hist.appended[k].citation.id
        => i = k

\* ---------------------------------------------------------------------
\* C18: whenever at least one known document exists the Retrieve stage
\* returns a non-empty list of retrieved sections (chunked content when
\* keyword search and filename match both find nothing); it returns an
\* empty list, together with the "no documents" UI block, exactly when
\* there are zero known documents.
FallbackLadder ==
    RanWithoutFailure =>
        LET known == Len(job.agent.inp.pdfs)
            sections == job.agent.relevant_documents
            no_documents == \E i \in 1..Len(hist.appended) :
                                hist.appended[i] = UIBlockEvent("No Documents")
        IN /\ known >= 1 => sections # <<>>
           /\ known >= 1 /\ after_filename_match(job.agent.inp) = <<>>
                 => \A i \in 1..Len(sections) : sections[i].context = "chunk"
           /\ (sections = <<>> /\ no_documents) <=> known = 0

\* ---------------------------------------------------------------------
\* what the phases of the Retrieve stage find, from the answers of the
\* processor alone
KeywordFinds == \E k \in 1..Len(job.agent.inp.results) : job.agent.inp.results[k] # <<>>

FilenameFinds ==
    \E i \in 1..Len(job.agent.inp.pdfs) :
        job.agent.inp.pdfs[i].named /\ job.agent.inp.pdfs[i].page1 = "text"

\* the Retrieve stage has returned
Retrieved == "extract_content" \in Range(hist.stages)

\* C19: in the Retrieve stage filename matching runs only when keyword
\* search added no section, and the full-document fallback only when both
\* earlier phases added none; once a phase has produced sections the later
\* phases add none (and a phase whose predecessors produced nothing is
\* attempted).
PhasesInOrder ==
    LET calls == Range(hist.calls)
        sections == job.agent.relevant_documents
        contexts == {sections[i].context : i \in 1..Len(sections)}
    IN /\ "processor.list_pdfs (filename match)" \in calls => ~KeywordFinds
       /\ "processor.extract_page (filename match)" \in calls => ~KeywordFinds
       /\ \A what \in {"processor.list_pdfs (fallback)", "processor.get_semantic_chunks",
                         "processor.extract_page (fallback)"} :
              what \in calls => ~KeywordFinds /\ ~FilenameFinds
       /\ Retrieved =>
              /\ KeywordFinds => contexts = {"search context"}
              /\ ~KeywordFinds /\ FilenameFinds => contexts = {"first page [:500]"}
              /\ ~KeywordFinds /\ ~FilenameFinds =>
                     contexts \subseteq {"chunk", "first page [:2000]"}
              /\ ~KeywordFinds => "processor.list_pdfs (filename match)" \in calls
              /\ ~KeywordFinds /\ ~FilenameFinds => "processor.list_pdfs (fallback)" \in calls

PhasesInOrderWitness ==
    /\ RanWithoutFailure
    /\ KeywordFinds /\ FilenameFinds
    /\ Len(job.agent.relevant_documents) = 2
    /\ "processor.search_text" \in Range(hist.calls)
    /\ "processor.list_pdfs (filename match)" \notin Range(hist.calls)

\* ---------------------------------------------------------------------
\* C20: the Generate UI stage emits the sources Table UI block if and only
\* if the retrieved sections come from at least 2 distinct documents; with
\* sections from a single document no Table is emitted.
TableIffTwoDocuments ==
    RanWithoutFailure =>
        LET sections == job.agent.relevant_documents
            documents == {sections[i].filename : i \in 1..Len(sections)}
        IN (\E i \in 1..Len(hist.appended) : hist.appended[i] = UIBlockEvent("Table"))
               <=> Cardinality(documents) >= 2

\* ---------------------------------------------------------------------
\* C21: every append resets the retention timer of the buffer to 600
\* seconds, and the buffer of a job (whose appends are less than 600
\* seconds apart, the execution budget being 300 seconds) does not expire
\* between its first append and its Done event: while the job runs the
\* buffer holds everything the job has appended.
SlidingTTL ==
    /\ [][(AtCommand("expire") /\ job' = AfterCommand("expire") /\ events # <<>>)
             => eventsTTL' = EVENT_TTL_SECONDS]_vars
    /\ [](job.state = "running" => Decoded(events) = hist.appended)
    /\ [](job.state = "running" /\ events # <<>> /\ eventsTTL # NoTTL
             => eventsTTL > 0 /\ eventsTTL + job.elapsed >= EVENT_TTL_SECONDS)

SlidingTTLWitness ==
    /\ job.state = "running"
    /\ job.elapsed > 0
    /\ Len(events) >= 2
    /\ eventsTTL = EVENT_TTL_SECONDS
    /\ ~HasDone(hist.appended)

\* ---------------------------------------------------------------------
\* C22: once 600 seconds have passed since the last write to the job's
\* buffer and done marker, the reads find nothing and give the empty
\* answer: get_all_events and get_events_from the empty list,
\* get_event_count 0 and is_done false.
ExpiredReadsEmpty ==
    hist.idle >= EVENT_TTL_SECONDS =>
        /\ get_all_events(events) = <<>>
        /\ \A start_index \in 0..Len(hist.appended) :
              get_events_from(events, start_index) = <<>>
        /\ get_event_count(events) = 0
        /\ ~is_done

\* a consumer attached after the expiry of a job that had written its
\* record: it found no done marker, subscribed and replayed nothing
ExpiredReadsEmptyWitness ==
    /\ hist.idle >= EVENT_TTL_SECONDS
    /\ HasDone(hist.appended)
    /\ hist.path = "subscribe"
    /\ cons.pc = "live"
    /\ cons.sent_count = 0
    /\ hist.yielded = <<>>

\* ---------------------------------------------------------------------
\* C23: the buffer is append-only.  A step of the publisher, of the
\* consumer or of the dispatcher leaves the list as it is or adds one
\* entry at its end; the only other change is the expiry of the whole
\* list when its retention timer runs out.
AppendOnly ==
    [][\/ events' = events
       \/ /\ Len(events') = Len(events) + 1
          /\ IsPrefix(events, events')
       \/ /\ events' = <<>>
          /\ Expired(Left(eventsTTL))
          /\ hist'.idle # hist.idle]_vars

\* a consumer has read and yielded from a buffer that went on growing
AppendOnlyWitness ==
    /\ Len(events) >= 3
    /\ cons.sent_count >= 1
    /\ Len(hist.yielded) >= 1
    /\ Len(events) > cons.sent_count
    /\ Decoded(events) = hist.appended

\* ---------------------------------------------------------------------
\* C24: with another job producing at the same time through the same
\* Redis, the first job's list holds exactly the events appended for the
\* first job, in their append order; its done marker is set only by its
\* own Done; its consumer is notified only of its own events, and yields
\* only events appended for the first job, in append order: through Done
\* when it has ended.
OwnEvent(e) == \E i \in 1..Len(hist.appended) : hist.appended[i] = e

JobIsolation ==
    /\ Decoded(events) = hist.appended
    /\ doneKey => HasDone(hist.appended)
    /\ \A i \in 1..Len(inbox) :
          inbox[i].type = "message" => OwnEvent(json_loads(inbox[i].data))
    /\ \A i \in 1..Len(other_events) :
          other_events[i].event # "done" => ~OwnEvent(other_events[i])
    /\ IsPrefix(hist.yielded, hist.appended)
    /\ cons.pc = "closed" /\ hist.reason # "cancelled"
          => hist.yielded = ThroughDone(hist.appended)

\* the consumer has come to the end of the first job's stream, which it
\* attached to while the other job was publishing
JobIsolationWitness ==
    /\ cons.pc = "closed" /\ hist.reason # "cancelled"
    /\ hist.path = "subscribe"
    /\ Len(hist.yielded) >= 3
    /\ other.events # <<>>
    /\ other.state = "running"
    /\ ~other.doneKey

\* ---------------------------------------------------------------------
\* C25: create_chat answers {job_id, status = "queued"} with a fresh
\* identifier for the job it has enqueued under the 300-second budget,
\* and its return waits for nothing: it can be taken whatever the job has
\* done meanwhile.  No two answers carry the same identifier, and a call
\* whose enqueue failed answers with an error that carries no identifier
\* and leaves no job behind.
Accepted == {i \in 1..Len(api.responses) : api.responses[i].code = 200}

Enqueued ==
    (IF job.state # "none" THEN {job.id} ELSE {})
        \cup (IF other.state # "none" THEN {other.id} ELSE {})

SubmitNonBlocking ==
    /\ \A i \in Accepted :
          /\ api.responses[i].status = "queued"
          /\ api.responses[i].job_id \in Enqueued
          /\ \A j \in Accepted : i # j => api.responses[i].job_id # api.responses[j].job_id
    /\ \A i \in 1..Len(api.responses) :
          i \notin Accepted => /\ api.responses[i] = HTTPException(500)
                               /\ api.responses[i].job_id \notin Enqueued
    /\ Enqueued = {api.responses[i].job_id : i \in Accepted}
                     \cup (IF api.pc = "enqueued" THEN {api.job_id} ELSE {})
    /\ job.state # "none" /\ other.state # "none" => job.id # other.id
    /\ api.pc = "enqueued" => ENABLED create_chat_return
    /\ job_timeout = 300

\* two requests have been answered with an identifier and one with an
\* error, and neither job has been taken by a worker yet
SubmitNonBlockingWitness ==
    /\ Cardinality(Accepted) = 2
    /\ Len(api.responses) > 2
    /\ job.state = "queued" /\ other.state = "queued"
    /\ hist.appended = <<>>

Decodable(list) == SelectSeq(Decoded(list), LAMBDA e : e # JSONDecodeError)

MalformedSkipped ==
    /\ Decodable(events) = hist.appended
    /\ \A i \in 1..Len(hist.yielded) : hist.yielded[i] # JSONDecodeError
    /\ IsPrefix(hist.yielded, Decodable(events))
    /\ hist.reason \in {"none", "cancelled", "done", "done_replay", "done_flush"}
    /\ cons.pc = "closed" /\ hist.reason # "cancelled"
          => hist.yielded = ThroughDone(Decodable(events))

\* a stream that subscribed has ended on Done after an undecodable entry
\* that stood between two events of the job
MalformedSkippedWitness ==
    /\ cons.pc = "closed" /\ hist.reason = "done" /\ hist.path = "subscribe"
    /\ \E i \in 2..(Len(events) - 1) : events[i] = undecodable
    /\ Len(hist.yielded) = Len(events) - 1

\* ---------------------------------------------------------------------
\* C28: the Synthesize stage publishes one TextChunk for every chunk of
\* the model's stream that has content and none for an empty one, in
\* arrival order; once the stage has returned, the contents of the job's
\* TextChunk events, concatenated in buffer order, are the stage's final
\* response text.
TextChunks == SelectSeq(hist.appended, LAMBDA e : e.event = "text_chunk")

RECURSIVE Concatenation(_)
Concatenation(chunks) ==
    IF chunks = <<>> THEN "" ELSE Head(chunks).name \o Concatenation(Tail(chunks))

\* the contents of the non-empty chunks of the stream, in arrival order
Arrived ==
    LET inp == job.agent.inp
        nonempty == SelectSeq([i \in 1..inp.nTok |-> i], LAMBDA i : i \notin inp.blank)
    IN [k \in 1..Len(nonempty) |-> ToString(nonempty[k])]

SynthesizeReturned ==
    /\ job.frame = "graph" /\ hist.raised = <<>>
    /\ job.node \in {"generate_ui_blocks", "finalize", END}

TextChunksAreResponse ==
    /\ \A i \in 1..Len(TextChunks) : TextChunks[i].name # ""
    /\ IsPrefix([i \in 1..Len(TextChunks) |-> TextChunks[i].name], Arrived)
    /\ SynthesizeReturned =>
          /\ Len(TextChunks) = Len(Arrived)
          /\ Concatenation(TextChunks) = job.agent.final_response

\* the stage has returned after a stream of which the first chunk was empty
\* and a later one was not
TextChunksAreResponseWitness ==
    /\ SynthesizeReturned
    /\ 1 \in job.agent.inp.blank
    /\ job.agent.inp.nTok >= 2
    /\ Len(TextChunks) >= 1
    /\ job.agent.final_response # ""

InLivePhase == cons.pc \in {"live", "poll_done", "flush_count", "flush_read", "flush_yield"}

DoneFlush ==
    /\ [](\A m \in 1..Len(inbox) : inbox[m].type # "message")
    /\ [][(cons.pc = "flush_read" /\ cons'.pc = "flush_yield")
             => /\ hist.yielded \o cons'.pending = hist.appended
                /\ HasDone(cons'.pending)]_vars
    /\ [][(cons.pc \in {"flush_count", "flush_read", "flush_yield"} /\ cons'.pc = "closed"
            /\ hist'.reason # "cancelled")
             => /\ hist'.yielded = ThroughDone(hist.appended)
                /\ hist'.delivered = hist'.yielded
                /\ HasDone(hist'.yielded)]_vars
    /\ [](cons.pc = "closed" /\ hist.reason # "cancelled"
             => hist.yielded = ThroughDone(hist.appended) /\ HasDone(hist.yielded))
    /\ (doneKey /\ InLivePhase) ~> (cons.pc = "closed")

\* the flush has ended a stream that had replayed a part of the record and
\* then waited in the live phase unnotified
DoneFlushWitness ==
    /\ cons.pc = "closed" /\ hist.reason = "done" /\ hist.path = "subscribe"
    /\ cons.sent_count >= 1
    /\ cons.sent_count + 2 <= Len(hist.yielded)
    /\ hist.yielded = hist.appended

\* ---------------------------------------------------------------------
\* C31: the replay over an empty buffer yields nothing and goes on to the
\* live phase, still subscribed; a Done event met in the replay is
\* yielded and ends the stream with that yield: the live phase is not
\* entered, the handle is closed, and the entries read after Done are
\* not yielded.
ReplayEdgeCases ==
    /\ [][(cons.pc = "replay_read" /\ cons'.pc # "replay_read"
            /\ get_all_events(events) = <<>>)
             => /\ cons'.pc = "live"
                /\ cons'.sent_count = 0
                /\ subscribed'
                /\ hist'.yielded = hist.yielded]_vars
    /\ [][(cons.pc = "replay_yield" /\ hist'.yielded # hist.yielded
            /\ Head(cons.pending).event = "done")
             => /\ hist'.yielded = Append(hist.yielded, Head(cons.pending))
                /\ cons'.pc = "closed"
                /\ cons'.pending = <<>>
                /\ ~subscribed' /\ inbox' = <<>>]_vars
    /\ [](\A i \in 1..(Len(hist.yielded) - 1) : hist.yielded[i].event # "done")

\* the replay has yielded the entries before Done and has come to Done,
\* with entries behind it in the buffer it read
ReplayEdgeCasesWitness ==
    /\ cons.pc = "replay_yield" /\ hist.path = "subscribe"
    /\ Head(cons.pending).event = "done"
    /\ Len(cons.pending) > 1
    /\ Len(hist.yielded) >= 1
    /\ cons.sent_count = Len(hist.yielded)

(***************************************************************************)
(* C32.  On every way out of the subscribed part of stream_events (Done in *)
(* the replay, Done in the live phase, the done flush, the timeout, an     *)
(* exception, the cancellation of the generator) the consumer unsubscribes *)
(* from the job's channel and closes its pub/sub handle: every step that   *)
(* ends a subscribed stream leaves it unsubscribed with no message kept,   *)
(* a finished stream has no subscription, and a subscription exists only   *)
(* inside the try block.                                                   *)
(***************************************************************************)
UnsubscribedOnExit ==
    /\ [][(subscribed /\ cons.pc # "closed" /\ cons'.pc = "closed")
             => ~subscribed' /\ inbox' = <<>>]_vars
    /\ [](cons.pc = "closed" => ~subscribed /\ inbox = <<>>)
    /\ [](subscribed => cons.pc \notin {"idle", "done_read", "done_yield", "subscribe"})

\* a subscribed stream that had yielded an event has ended by an exception
UnsubscribedOnExitWitness ==
    /\ cons.pc = "closed" /\ hist.path = "subscribe"
    /\ hist.reason = "exception"
    /\ hist.yielded # <<>>
    /\ ~subscribed /\ inbox = <<>>

(***************************************************************************)
(* C33.  Prefix invariant of the subscribing consumer.  While the job's    *)
(* list is retained, at every point of the replay and of the live phase    *)
(* (the done flush, which does not count, apart) sent_count is at most the *)
(* length of the list and the events yielded so far are exactly the        *)
(* decodable ones among the first sent_count entries of the list, in       *)
(* order.  sent_count never decreases.  The suffix fetch takes every entry *)
(* from sent_count to the end of the list as it is then, also those        *)
(* appended after the count was read, and they are counted as passed.      *)
(***************************************************************************)
\* the consumer is in the replay or in the live phase, outside the done flush
InReplayOrLive ==
    /\ hist.path = "subscribe"
    /\ cons.pc \in {"replay_read", "replay_yield", "live", "count", "suffix",
                    "live_yield", "poll_done", "flush_count", "flush_read"}

DoneMarkerWithinList ==
    /\ cons.pc \in {"done_read", "flush_count"} => HasDone(Decoded(events))
    /\ (cons.pc = "closed" /\ hist.reason \notin {"none", "timeout", "cancelled"})
         => /\ hist.yielded # <<>>
            /\ hist.yielded[Len(hist.yielded)].event = "done"

(***************************************************************************)
(* C35.  The job's buffer contains at most one Done event and no event is  *)
(* appended after it, also when a failure occurs at any point of the job   *)
(* and the error handlers of run_agent and process_chat_job run: a Done    *)
(* event in the list is the last entry of the list.                        *)
(***************************************************************************)
DoneIsLastEntry ==
    \A i \in 1..Len(events) : json_loads(events[i]).event = "done" => i = Len(events)

(***************************************************************************)
(* C36.  In the job's buffer every ToolStart event is followed, before the *)
(* job's Done event, by a ToolEnd event with the same tool name, also when *)
(* the stage that appended the ToolStart fails.                            *)
(***************************************************************************)
EveryToolStartEnded ==
    LET buffer == Decoded(events)
    IN HasDone(buffer) =>
         \A i \in 1..FirstDone(buffer) :
            buffer[i].event = "tool_call_start" =>
               \E k \in (i + 1)..FirstDone(buffer) :
                  /\ buffer[k].event = "tool_call_end"
                  /\ buffer[k].name = buffer[i].name

(***************************************************************************)
(* C37.  Producer crash.  When the producer has stopped for good without   *)
(* appending Done or setting the done marker, a consumer attached to the   *)
(* job while its list is retained ends its live phase at the 300-second    *)
(* ceiling, having yielded exactly the events appended before the crash,   *)
(* in order and once each, and then one timeout error.                     *)
(***************************************************************************)
\* the producer has crashed before appending Done
CrashedBeforeDone == job.state = "crashed" /\ ~HasDone(hist.appended)

CrashedStreamComplete ==
    [][(/\ CrashedBeforeDone
        /\ events # <<>>
        /\ cons.pc = "live" /\ cons'.pc = "closed")
         => /\ cons.elapsed > max_wait_seconds
            /\ hist'.yielded = Append(hist.appended, SubscriberTimeoutEvent)]_vars

(***************************************************************************)
(* C38.  A pipeline failure is not propagated to the job runtime.  When a  *)
(* stage raises, run_agent catches the exception, publishes Error and Done *)
(* and returns, and process_chat_job returns with status "completed": the  *)
(* runtime records the job as finished.  The runtime records a job as      *)
(* failed, and a status query answers failed, only when an exception has   *)
(* left process_chat_job, that is when its own handler has raised.         *)
(***************************************************************************)
\* the one exception of the job was raised by a stage's collaborator
OneStageFailure == job.failures = 1 /\ Len(hist.raised) = 1

FailureNotPropagated ==
    /\ [][(job.frame = "graph" /\ job'.frame # "graph")
             => /\ job'.frame = "run_agent_except"
                /\ job'.state = "running"]_vars
    /\ []((job.state = "finished" /\ OneStageFailure) =>
             /\ job.frame = "run_agent_except"
             /\ Len(hist.appended) >= 2
             /\ SubSeq(hist.appended, Len(hist.appended) - 1, Len(hist.appended))
                   = <<ErrorEvent("exception", "false"), DoneEvent>>
             /\ process_chat_job_result(job) = "completed"
             /\ get_status(job) = "finished")
    /\ [](job.state = "failed" =>
             /\ job.frame = "worker_except"
             /\ Len(hist.raised) >= 3)
    /\ []((api.job_status.code = 200 /\ api.job_status.status = "failed") =>
             /\ api.reported = "failed"
             /\ job.state = "failed")
    /\ [][(OneStageFailure /\ job.state = "finished" /\ api' # api)
             => api'.job_status = JobStatus(job.id, "finished")
                \/ api'.reported \in RuntimeOnlyStatus]_vars

\* the job whose stage failed has returned and its status has been asked
FailureNotPropagatedWitness ==
    /\ job.state = "finished" /\ OneStageFailure
    /\ process_chat_job_result(job) = "completed"
    /\ api.job_status = JobStatus(job.id, "finished")
    /\ api.reported = "finished"

(***************************************************************************)
(* C39.  What the endpoint delivers to the client against what             *)
(* stream_events yields to the endpoint.                                   *)
(***************************************************************************)
\* an event of the endpoint's own
Own(e) == e \in {EndpointTimeoutEvent, EndpointErrorEvent}

\* the delivered events that the endpoint took from stream_events
Forwarded == SelectSeq(hist.delivered, LAMBDA e : ~Own(e))

\* C39 as stated: the events delivered to a client that has not left are
\* the events yielded by stream_events, in the same order, cut after the
\* first Done, with at most one event of the endpoint's own behind them.
DeliveredAreYielded ==
    (cons.pc = "closed" /\ hist.reason # "cancelled") =>
        /\ Forwarded = ThroughDone(hist.yielded)
        /\ Len(hist.delivered) <= Len(Forwarded) + 1

\* C39, amended: the events delivered are a prefix of the events yielded by
\* stream_events, in the same order, and nothing is yielded after a Done.
\* Every yielded event is delivered except the one in hand when the
\* endpoint finds the client gone or its own timeout passed, which is
\* dropped and ends the stream; so the timeout error of stream_events is
\* never delivered, the endpoint's takes its place.  The client receives
\* no event after a done event.  The endpoint adds at most one event of its
\* own, a non-recoverable error on its timeout or on an exception of the
\* subscriber, and delivers nothing after it nor after the stream's end.
DeliveredPrefixOfYielded ==
    /\ [](/\ IsPrefix(Forwarded, hist.yielded)
          /\ hist.yielded = ThroughDone(hist.yielded)
          /\ Len(Forwarded) >= Len(hist.yielded) - 1
          /\ Len(Forwarded) < Len(hist.yielded)
                => cons.pc = "closed" /\ hist.reason \in {"timeout", "cancelled"}
          /\ \A i \in 1..Len(hist.delivered) : hist.delivered[i] # SubscriberTimeoutEvent
          /\ \A i \in 1..(Len(hist.delivered) - 1) :
                hist.delivered[i].event # "done" /\ ~Own(hist.delivered[i])
          /\ \A i \in 1..Len(hist.delivered) :
                Own(hist.delivered[i]) =>
                   /\ hist.delivered[i].recoverable = "false"
                   /\ cons.pc = "closed"
                   /\ hist.reason = "timeout" <=> hist.delivered[i] = EndpointTimeoutEvent
                   /\ hist.reason = "exception" <=> hist.delivered[i] = EndpointErrorEvent
          /\ (cons.pc = "closed" /\ hist.reason \in {"timeout", "exception"})
                => hist.delivered # <<>> /\ Own(hist.delivered[Len(hist.delivered)]))
    /\ [][cons.pc = "closed" => hist'.delivered = hist.delivered]_vars

\* stream_events has yielded an event of the job and then, at its ceiling,
\* its timeout error: the client got the former and the endpoint's error
DeliveredPrefixOfYieldedWitness ==
    /\ cons.pc = "closed" /\ hist.reason = "timeout"
    /\ Len(hist.yielded) >= 2
    /\ hist.yielded[Len(hist.yielded)] = SubscriberTimeoutEvent
    /\ hist.delivered = Append(SubSeq(hist.yielded, 1, Len(hist.yielded) - 1),
                               EndpointTimeoutEvent)

=============================================================================
